---- MODULE Spec2Model ----
(***************************************************************************)
(* Cross-process synchronisation layer of my-launcher: the shared          *)
(* TabManager (tab snapshot + command queue), the launcher's named-pipe    *)
(* server loop, the WebSocket sessions with their 50 ms command pollers,   *)
(* the pipe client's bounded connect and the length-prefixed framing.      *)
(***************************************************************************)
EXTENDS Integers, Sequences, FiniteSets, TLC

\* ------------------------------------------------------------------ bounds
\* total number of queue_command calls explored
MaxCmds == 2
\* number of TabManager calls made by the single-threaded caller
MaxTmCalls == 7

\* the connections of browsers to the WebSocket listener
Sessions == {1, 2}

\* ------------------------------------------------------------ data values
\* Option<T>
None == [kind |-> "None"]
Some(v) == [kind |-> "Some", value |-> v]

\* core::native_messaging::ChromeTab values the transports carry
TabA == [id |-> 1, window_id |-> 10, title |-> "A", url |-> "http://a",
         fav_icon_url |-> "", active |-> TRUE, index |-> 0]
TabB == [id |-> 2, window_id |-> 11, title |-> "Chrome Canary", url |-> "http://b",
         fav_icon_url |-> "", active |-> FALSE, index |-> 1]

\* tab lists pushed by the browser side (Vec<ChromeTab> / Vec<TabInfo>)
TabLists == {<<TabA>>, <<TabB, TabA>>}

\* ChromeCommand::SwitchToTab { tab_id, window_id }
SwitchToTab(t, w) == [type |-> "SwitchToTab", tab_id |-> t, window_id |-> w]

\* (tab_id, window_id) pairs the UI and the browser ask for
SwitchTargets == {<<5, 2>>, <<7, 3>>}

\* ------------------------------------------------------------ IpcMessage
GetTabsMsg == [type |-> "GetTabs"]
SwitchToTabMsg(t, w) == [type |-> "SwitchToTab", tab_id |-> t, window_id |-> w]
TabListMsg(ts) == [type |-> "TabList", tabs |-> ts]
TabSwitchResultMsg(ok, err) == [type |-> "TabSwitchResult", success |-> ok, error |-> err]
ChromeCommandMsg(c) == [type |-> "ChromeCommand", command |-> c]

\* no message outstanding on the pipe connection
NoMsg == [type |-> "NoMsg"]

\* ipc::TabInfo built field by field from a ChromeTab (main.rs GetTabs arm)
ToTabInfo(tab) ==
    [id |-> tab.id, window_id |-> tab.window_id, title |-> tab.title,
     url |-> tab.url, fav_icon_url |-> tab.fav_icon_url,
     active |-> tab.active, index |-> tab.index]

\* ChromeTab built field by field from an ipc::TabInfo (main.rs TabList arm)
ToChromeTab(tab) ==
    [id |-> tab.id, window_id |-> tab.window_id, title |-> tab.title,
     url |-> tab.url, fav_icon_url |-> tab.fav_icon_url,
     active |-> tab.active, index |-> tab.index]

MapSeq(f(_), s) == [i \in 1..Len(s) |-> f(s[i])]

\* ChromeExtensionCommand built from the popped ChromeCommand
ToExtCommand(c) == SwitchToTab(c.tab_id, c.window_id)

\* messages a pipe client can put on the connection
ClientMessages ==
    {GetTabsMsg}
    \cup {SwitchToTabMsg(p[1], p[2]) : p \in SwitchTargets}
    \cup {TabListMsg(ts) : ts \in TabLists}
    \cup {TabSwitchResultMsg(TRUE, None)}
    \cup {ChromeCommandMsg(SwitchToTab(5, 2))}

\* ------------------------------------------------------------ TabManager
\* update_tabs extending the previous snapshot instead of replacing it
update_tabs_merge(old, new) == old \o new

\* update_tabs: *tab_list = tabs
update_tabs(old, new) == new

\* get_tabs: clone of the snapshot
get_tabs(ts) == ts

\* queue_command pushing at the front
queue_command_front(q, c) == <<c>> \o q

\* queue_command: push_back
queue_command(q, c) == Append(q, c)

\* pop_command reading the head without removing it
pop_command_peek(q) ==
    IF q = <<>> THEN [result |-> None, queue |-> q]
    ELSE [result |-> Some(Head(q)), queue |-> q]

\* pop_command: pop_front; the returned Option and the queue left behind
pop_command(q) ==
    IF q = <<>> THEN [result |-> None, queue |-> q]
    ELSE [result |-> Some(Head(q)), queue |-> Tail(q)]

\* ------------------------------------------------- io::Result<IpcMessage>
Ok(v) == [kind |-> "Ok", value |-> v]
Err(k) == [kind |-> "Err", error |-> k]

\* communicate_with_launcher has not returned yet
NoResult == [kind |-> "NoResult"]

\* ---------------------------------------------------- String and bytes
\* the strings that occur in the messages explored, and their UTF-8 bytes
KnownStrings ==
    {"GetTabs", "SwitchToTab", "TabList", "TabSwitchResult",
     "ChromeCommand", "tab_id", "window_id", "tabs", "success", "error",
     "command", "id", "title", "url", "fav_icon_url", "active", "index",
     "", "A", "http://a", "Chrome Canary", "http://b", "Tab switch failed",
     "a\"b\\c",
     "getTabs", "switchToTab", "tabId", "windowId", "type",
     "tabList", "tabSwitchAck", "favIconUrl",
     "request", "response", "event", "method", "params", "updateTabs",
     "keepAlive", "bogus", "1", "2", "3", "5", "7", "foo", "result", "data",
     "tabsUpdated", "tabSwitchRequested", "timestamp", "code", "message"}

\* String::as_bytes for the strings above
Utf8(s) ==
    CASE
      s = "GetTabs" -> <<71,101,116,84,97,98,115>>
   [] s = "SwitchToTab" -> <<83,119,105,116,99,104,84,111,84,97,98>>
   [] s = "TabList" -> <<84,97,98,76,105,115,116>>
   [] s = "TabSwitchResult" -> <<84,97,98,83,119,105,116,99,104,82,101,115,117,108,116>>
   [] s = "ChromeCommand" -> <<67,104,114,111,109,101,67,111,109,109,97,110,100>>
   [] s = "tab_id" -> <<116,97,98,95,105,100>>
   [] s = "window_id" -> <<119,105,110,100,111,119,95,105,100>>
   [] s = "tabs" -> <<116,97,98,115>>
   [] s = "success" -> <<115,117,99,99,101,115,115>>
   [] s = "error" -> <<101,114,114,111,114>>
   [] s = "command" -> <<99,111,109,109,97,110,100>>
   [] s = "id" -> <<105,100>>
   [] s = "title" -> <<116,105,116,108,101>>
   [] s = "url" -> <<117,114,108>>
   [] s = "fav_icon_url" -> <<102,97,118,95,105,99,111,110,95,117,114,108>>
   [] s = "active" -> <<97,99,116,105,118,101>>
   [] s = "index" -> <<105,110,100,101,120>>
   [] s = "" -> <<>>
   [] s = "A" -> <<65>>
   [] s = "http://a" -> <<104,116,116,112,58,47,47,97>>
   [] s = "Chrome Canary" -> <<67,104,114,111,109,101,32,67,97,110,97,114,121>>
   [] s = "http://b" -> <<104,116,116,112,58,47,47,98>>
   [] s = "Tab switch failed" -> <<84,97,98,32,115,119,105,116,99,104,32,102,97,105,108,101,100>>
   [] s = "a\"b\\c" -> <<97,34,98,92,99>>
   [] s = "getTabs" -> <<103,101,116,84,97,98,115>>
   [] s = "switchToTab" -> <<115,119,105,116,99,104,84,111,84,97,98>>
   [] s = "tabId" -> <<116,97,98,73,100>>
   [] s = "windowId" -> <<119,105,110,100,111,119,73,100>>
   [] s = "type" -> <<116,121,112,101>>
   [] s = "tabList" -> <<116,97,98,76,105,115,116>>
   [] s = "tabSwitchAck" -> <<116,97,98,83,119,105,116,99,104,65,99,107>>
   [] s = "favIconUrl" -> <<102,97,118,73,99,111,110,85,114,108>>
   [] s = "request" -> <<114,101,113,117,101,115,116>>
   [] s = "response" -> <<114,101,115,112,111,110,115,101>>
   [] s = "event" -> <<101,118,101,110,116>>
   [] s = "method" -> <<109,101,116,104,111,100>>
   [] s = "params" -> <<112,97,114,97,109,115>>
   [] s = "updateTabs" -> <<117,112,100,97,116,101,84,97,98,115>>
   [] s = "keepAlive" -> <<107,101,101,112,65,108,105,118,101>>
   [] s = "bogus" -> <<98,111,103,117,115>>
   [] s = "1" -> <<49>>
   [] s = "2" -> <<50>>
   [] s = "3" -> <<51>>
   [] s = "5" -> <<53>>
   [] s = "7" -> <<55>>
   [] s = "foo" -> <<102,111,111>>
   [] s = "result" -> <<114,101,115,117,108,116>>
   [] s = "data" -> <<100,97,116,97>>
   [] s = "tabsUpdated" -> <<116,97,98,115,85,112,100,97,116,101,100>>
   [] s = "tabSwitchRequested" -> <<116,97,98,83,119,105,116,99,104,82,101,113,117,101,115,116,101,100>>
   [] s = "timestamp" -> <<116,105,109,101,115,116,97,109,112>>
   [] s = "code" -> <<99,111,100,101>>
   [] s = "message" -> <<109,101,115,115,97,103,101>>
   [] s = "CHROME" -> <<67,72,82,79,77,69>>
   [] s = "HTTP://A" -> <<72,84,84,80,58,47,47,65>>
   [] s = "zz" -> <<122,122>>
   [] s = "ΟΣ" -> <<206,159,206,163>>
   [] s = "Σ" -> <<206,163>>

\* a String from its UTF-8 bytes; a string outside KnownStrings is not told
\* apart from the others outside it
FromUtf8(bytes) ==
    IF \E s \in KnownStrings : Utf8(s) = bytes
    THEN CHOOSE s \in KnownStrings : Utf8(s) = bytes
    ELSE "<other>"

\* ---------------------------------------------- serde_json::to_string
JsonTrue == <<116, 114, 117, 101>>
JsonFalse == <<102, 97, 108, 115, 101>>
JsonNull == <<110, 117, 108, 108>>

RECURSIVE json_digits(_)
\* decimal digits of a non-negative integer
json_digits(n) ==
    IF n < 10 THEN <<48 + n>>
    ELSE json_digits(n \div 10) \o <<48 + (n % 10)>>

RECURSIVE json_neg_digits(_)
\* decimal digits of the magnitude of a negative integer, i32::MIN included
json_neg_digits(n) ==
    LET d == (10 - (n % 10)) % 10
        rest == (n + d) \div 10
    IN  IF rest = 0 THEN <<48 + d>> ELSE json_neg_digits(rest) \o <<48 + d>>

\* i32 as JSON
json_i32(n) == IF n < 0 THEN <<45>> \o json_neg_digits(n) ELSE json_digits(n)

\* bool as JSON
json_bool(b) == IF b THEN JsonTrue ELSE JsonFalse

\* hexadecimal digit as an ASCII byte
HexDigit(d) == IF d < 10 THEN 48 + d ELSE 87 + d

\* one byte of a string as it is written between the quotes
json_escape_byte(c) ==
    CASE c = 34 -> <<92, 34>>
      [] c = 92 -> <<92, 92>>
      [] c = 8  -> <<92, 98>>
      [] c = 12 -> <<92, 102>>
      [] c = 10 -> <<92, 110>>
      [] c = 13 -> <<92, 114>>
      [] c = 9  -> <<92, 116>>
      [] c < 32 /\ c \notin {8, 9, 10, 12, 13}
             -> <<92, 117, 48, 48, HexDigit(c \div 16), HexDigit(c % 16)>>
      [] OTHER -> <<c>>

RECURSIVE json_escape(_)
json_escape(bytes) ==
    IF bytes = <<>> THEN <<>>
    ELSE json_escape_byte(Head(bytes)) \o json_escape(Tail(bytes))

\* String as JSON
json_string(s) == <<34>> \o json_escape(Utf8(s)) \o <<34>>

\* "name":
json_key(s) == json_string(s) \o <<58>>

\* Option<String> as JSON
json_option_string(o) == IF o = None THEN JsonNull ELSE json_string(o.value)

\* TabInfo as JSON: the fields in declaration order
json_tab_info(t) ==
    <<123>> \o json_key("id") \o json_i32(t.id)
    \o <<44>> \o json_key("window_id") \o json_i32(t.window_id)
    \o <<44>> \o json_key("title") \o json_string(t.title)
    \o <<44>> \o json_key("url") \o json_string(t.url)
    \o <<44>> \o json_key("fav_icon_url") \o json_string(t.fav_icon_url)
    \o <<44>> \o json_key("active") \o json_bool(t.active)
    \o <<44>> \o json_key("index") \o json_i32(t.index)
    \o <<125>>

RECURSIVE json_tab_infos(_)
\* the elements of a Vec<TabInfo>, separated by commas
json_tab_infos(ts) ==
    IF ts = <<>> THEN <<>>
    ELSE IF Len(ts) = 1 THEN json_tab_info(ts[1])
    ELSE json_tab_info(Head(ts)) \o <<44>> \o json_tab_infos(Tail(ts))

\* a struct variant of an externally tagged enum: {"Variant":{fields}}
json_variant(name, fields) ==
    <<123>> \o json_key(name) \o <<123>> \o fields \o <<125, 125>>

\* the fields of SwitchToTab { tab_id, window_id }
json_switch_fields(t, w) ==
    json_key("tab_id") \o json_i32(t) \o <<44>> \o json_key("window_id") \o json_i32(w)

\* serde_json::to_string(&IpcMessage), as bytes
to_string(m) ==
    CASE m.type = "GetTabs" -> json_string("GetTabs")
      [] m.type = "SwitchToTab" ->
            json_variant("SwitchToTab", json_switch_fields(m.tab_id, m.window_id))
      [] m.type = "TabList" ->
            json_variant("TabList",
                json_key("tabs") \o <<91>> \o json_tab_infos(m.tabs) \o <<93>>)
      [] m.type = "TabSwitchResult" ->
            json_variant("TabSwitchResult",
                json_key("success") \o json_bool(m.success)
                \o <<44>> \o json_key("error") \o json_option_string(m.error))
      [] m.type = "ChromeCommand" ->
            json_variant("ChromeCommand",
                json_key("command")
                \o json_variant("SwitchToTab",
                       json_switch_fields(m.command.tab_id, m.command.window_id)))

\* what a Deserialize implementation returns
DeFail == [ok |-> FALSE]
DeOk(v) == [ok |-> TRUE, value |-> v]

\* ---------------------------------------------- serde_json::from_slice
\* a parsed JSON value with the position after it, or a syntax error.  The
\* value is what the text says; whether a typed field takes it is decided
\* where the field is read, because the members a struct does not know are
\* skipped with a check of their syntax only
JNull == [t |-> "null"]
JFail == [ok |-> FALSE, value |-> JNull, pos |-> 0]
JOk(v, p) == [ok |-> TRUE, value |-> v, pos |-> p]

\* the element of a one-element set; Only({e(x) : x \in {d}}) is e(d) with d
\* evaluated once, the way a `let` of the parser holds an intermediate result
Only(S) == CHOOSE x \in S : TRUE

IsWs(c) == c \in {32, 9, 10, 13}
IsDigit(c) == c \in 48..57

RECURSIVE skip_ws(_, _)
skip_ws(b, i) == IF i <= Len(b) /\ IsWs(b[i]) THEN skip_ws(b, i + 1) ELSE i

\* the bytes of lit stand at position i
has_literal(b, i, lit) ==
    /\ i + Len(lit) - 1 <= Len(b)
    /\ SubSeq(b, i, i + Len(lit) - 1) = lit

\* a number: an i32 with its value, or the class of any other number
\* ("i64" and "u64" for the integers beyond i32, "f64" for a float,
\* "out_of_range" for a float too large for f64)
JInt(n) == [t |-> "num", k |-> "i32", v |-> n]
JWide(class) == [t |-> "num", k |-> class, v |-> 0]

\* decimal digits, most significant first, of i32::MAX, 2^31, i64::MAX,
\* 2^63 and u64::MAX
I32MaxDigits == <<2, 1, 4, 7, 4, 8, 3, 6, 4, 7>>
I32MinDigits == <<2, 1, 4, 7, 4, 8, 3, 6, 4, 8>>
I64MaxDigits == <<9, 2, 2, 3, 3, 7, 2, 0, 3, 6, 8, 5, 4, 7, 7, 5, 8, 0, 7>>
I64MinDigits == <<9, 2, 2, 3, 3, 7, 2, 0, 3, 6, 8, 5, 4, 7, 7, 5, 8, 0, 8>>
U64MaxDigits == <<1, 8, 4, 4, 6, 7, 4, 4, 0, 7, 3, 7, 0, 9, 5, 5, 1, 6, 1, 5>>

\* for the exponents 289 .. 308, the digits of the least u64 significand s
\* for which (s as f64) * POW10[exponent] is infinite in f64 arithmetic; for
\* an exponent up to 288 the product is finite for every u64
F64InfiniteFrom ==
    <<
      <<1, 7, 9, 7, 6, 9, 3, 1, 3, 4, 8, 6, 2, 3, 1, 5, 6, 2, 2, 5>>,
      <<1, 7, 9, 7, 6, 9, 3, 1, 3, 4, 8, 6, 2, 3, 1, 5, 6, 4, 9>>,
      <<1, 7, 9, 7, 6, 9, 3, 1, 3, 4, 8, 6, 2, 3, 1, 6, 0, 0>>,
      <<1, 7, 9, 7, 6, 9, 3, 1, 3, 4, 8, 6, 2, 3, 1, 5, 8>>,
      <<1, 7, 9, 7, 6, 9, 3, 1, 3, 4, 8, 6, 2, 3, 1, 6>>,
      <<1, 7, 9, 7, 6, 9, 3, 1, 3, 4, 8, 6, 2, 3, 2>>,
      <<1, 7, 9, 7, 6, 9, 3, 1, 3, 4, 8, 6, 2, 4>>,
      <<1, 7, 9, 7, 6, 9, 3, 1, 3, 4, 8, 6, 3>>,
      <<1, 7, 9, 7, 6, 9, 3, 1, 3, 4, 8, 7>>,
      <<1, 7, 9, 7, 6, 9, 3, 1, 3, 4, 9>>,
      <<1, 7, 9, 7, 6, 9, 3, 1, 3, 5>>,
      <<1, 7, 9, 7, 6, 9, 3, 1, 4>>,
      <<1, 7, 9, 7, 6, 9, 3, 2>>,
      <<1, 7, 9, 7, 6, 9, 4>>,
      <<1, 7, 9, 7, 7, 0>>,
      <<1, 7, 9, 7, 7>>,
      <<1, 7, 9, 8>>,
      <<1, 8, 0>>,
      <<1, 8>>,
      <<2>>
    >>

\* order of two magnitudes given by their digits without leading zeros
DigitsLess(x, y) ==
    \/ Len(x) < Len(y)
    \/ /\ Len(x) = Len(y)
       /\ \E i \in 1..Len(x) : x[i] < y[i] /\ \A j \in 1..(i - 1) : x[j] = y[j]
DigitsLeq(x, y) == x = y \/ DigitsLess(x, y)

RECURSIVE neg_value(_, _)
\* minus the magnitude of the digits, accumulated below zero so that 2^31
\* is reached without overflow
neg_value(ds, acc) ==
    IF ds = <<>> THEN acc ELSE neg_value(Tail(ds), acc * 10 - Head(ds))

RECURSIVE significand_digits(_, _, _, _, _)
\* the run of digits from position i on, taken into the u64 significand sig
\* (digits without leading zeros) as long as it fits: the significand, the
\* number of digits taken, the number left out and the position after the run
significand_digits(b, i, sig, taken, left) ==
    IF i <= Len(b) /\ IsDigit(b[i])
    THEN LET next == IF sig = <<>> /\ b[i] = 48 THEN <<>> ELSE Append(sig, b[i] - 48) IN
         IF left = 0 /\ DigitsLeq(next, U64MaxDigits)
         THEN significand_digits(b, i + 1, next, taken + 1, 0)
         ELSE significand_digits(b, i + 1, sig, taken, left + 1)
    ELSE [sig |-> sig, taken |-> taken, left |-> left, pos |-> i]

\* f64_from_parts: f = significand as f64, then f *= POW10[exponent] for an
\* exponent of the table 1e0 .. 1e308 (out of range when the product is
\* infinite), f /= POW10[-exponent] for a negative one; an exponent beyond
\* the table is out of range unless f is 0.0 or the exponent is negative
f64_from_parts(sig, exponent) ==
    IF sig = <<>> \/ exponent < 0 THEN JWide("f64")
    ELSE IF exponent > 308 THEN JWide("out_of_range")
    ELSE IF exponent <= 288 THEN JWide("f64")
    ELSE IF DigitsLess(sig, F64InfiniteFrom[exponent - 288]) THEN JWide("f64")
    ELSE JWide("out_of_range")

RECURSIVE exponent_digits(_, _, _, _)
\* the digits of an exponent: its value, whether it went beyond i32::MAX, and
\* the position after the digits
exponent_digits(b, i, acc, overflow) ==
    IF i <= Len(b) /\ IsDigit(b[i])
    THEN LET d == b[i] - 48 IN
         IF overflow \/ acc > 214748364 \/ (acc = 214748364 /\ d > 7)
         THEN exponent_digits(b, i + 1, acc, TRUE)
         ELSE exponent_digits(b, i + 1, acc * 10 + d, FALSE)
    ELSE [value |-> acc, overflow |-> overflow, pos |-> i]

\* an exponent that cannot change the class of the number any more
clamp_exponent(n) == IF n > 1000000000 THEN 1000000000 ELSE n

\* parse_exponent: the part after e or E, which starts at position i0
parse_exponent(b, sig, starting_exp, i0) ==
    LET positive_exp == ~(i0 <= Len(b) /\ b[i0] = 45)
        i == IF i0 <= Len(b) /\ b[i0] \in {43, 45} THEN i0 + 1 ELSE i0
    IN  IF i > Len(b) \/ ~IsDigit(b[i]) THEN JFail
        ELSE Only({
               IF e.overflow
               THEN JOk(IF sig # <<>> /\ positive_exp THEN JWide("out_of_range")
                        ELSE JWide("f64"), e.pos)
               ELSE JOk(f64_from_parts(sig,
                            IF positive_exp THEN starting_exp + clamp_exponent(e.value)
                            ELSE starting_exp - clamp_exponent(e.value)), e.pos)
             : e \in {exponent_digits(b, i, 0, FALSE)}})

\* parse_decimal: the part after the point, which starts at position i
parse_decimal(b, sig, exponent_before, i) ==
    IF i > Len(b) \/ ~IsDigit(b[i]) THEN JFail
    ELSE Only({
           IF f.pos <= Len(b) /\ b[f.pos] \in {69, 101}
           THEN parse_exponent(b, f.sig, exponent_before - f.taken, f.pos + 1)
           ELSE JOk(f64_from_parts(f.sig, exponent_before - f.taken), f.pos)
         : f \in {significand_digits(b, i, sig, 0, 0)}})

\* an integer without fraction and exponent whose digits fit u64: -0 and the
\* integers below i64::MIN are floats
parse_integer(positive, sig) ==
    IF positive
    THEN IF DigitsLeq(sig, I32MaxDigits) THEN JInt(0 - neg_value(sig, 0))
         ELSE IF DigitsLeq(sig, I64MaxDigits) THEN JWide("i64")
         ELSE JWide("u64")
    ELSE IF sig = <<>> THEN JWide("f64")
         ELSE IF DigitsLeq(sig, I32MinDigits) THEN JInt(neg_value(sig, 0))
         ELSE IF DigitsLeq(sig, I64MinDigits) THEN JWide("i64")
         ELSE JWide("f64")

\* a number that starts at position i: sign, integer part without a leading
\* zero, then an optional fraction and an optional exponent
parse_number(b, i) ==
    LET positive == b[i] # 45
        j == IF positive THEN i ELSE i + 1
    IN  IF j > Len(b) \/ ~IsDigit(b[j]) THEN JFail
        ELSE IF b[j] = 48 /\ j + 1 <= Len(b) /\ IsDigit(b[j + 1]) THEN JFail
        ELSE Only({
               IF n.pos <= Len(b) /\ b[n.pos] = 46
               THEN parse_decimal(b, n.sig, n.left, n.pos + 1)
               ELSE IF n.pos <= Len(b) /\ b[n.pos] \in {69, 101}
               THEN parse_exponent(b, n.sig, n.left, n.pos + 1)
               ELSE IF n.left = 0 THEN JOk(parse_integer(positive, n.sig), n.pos)
               ELSE JOk(f64_from_parts(n.sig, n.left), n.pos)
             : n \in {significand_digits(b, j, <<>>, 0, 0)}})

\* value of a hexadecimal digit, -1 for any other byte
HexValue(c) ==
    IF c \in 48..57 THEN c - 48
    ELSE IF c \in 97..102 THEN c - 87
    ELSE IF c \in 65..70 THEN c - 55
    ELSE 0 - 1

\* decode_hex_escape: the value of the four hexadecimal digits at position i,
\* -1 when they are not there
hex4(b, i) ==
    IF i + 3 > Len(b) THEN 0 - 1
    ELSE IF \E k \in 0..3 : HexValue(b[i + k]) < 0 THEN 0 - 1
    ELSE 4096 * HexValue(b[i]) + 256 * HexValue(b[i + 1])
         + 16 * HexValue(b[i + 2]) + HexValue(b[i + 3])

\* char::encode_utf8
encode_utf8(n) ==
    IF n < 128 THEN <<n>>
    ELSE IF n < 2048 THEN <<192 + (n \div 64), 128 + (n % 64)>>
    ELSE IF n < 65536
         THEN <<224 + (n \div 4096), 128 + ((n \div 64) % 64), 128 + (n % 64)>>
    ELSE <<240 + (n \div 262144), 128 + ((n \div 4096) % 64),
           128 + ((n \div 64) % 64), 128 + (n % 64)>>

\* what an escape sequence stands for: the bytes of a char, or a surrogate
\* that has no partner (lone), which only a skipped string may hold
Escaped(bytes) == [bytes |-> bytes, lone |-> FALSE]
LoneSurrogate == [bytes |-> <<>>, lone |-> TRUE]

\* the escape sequence at position i (after the backslash) with the position
\* after it; \uD800..\uDBFF followed by \uDC00..\uDFFF is one char
parse_escape(b, i) ==
    IF i > Len(b) THEN JFail
    ELSE CASE b[i] = 34  -> JOk(Escaped(<<34>>), i + 1)
           [] b[i] = 92  -> JOk(Escaped(<<92>>), i + 1)
           [] b[i] = 47  -> JOk(Escaped(<<47>>), i + 1)
           [] b[i] = 98  -> JOk(Escaped(<<8>>), i + 1)
           [] b[i] = 102 -> JOk(Escaped(<<12>>), i + 1)
           [] b[i] = 110 -> JOk(Escaped(<<10>>), i + 1)
           [] b[i] = 114 -> JOk(Escaped(<<13>>), i + 1)
           [] b[i] = 116 -> JOk(Escaped(<<9>>), i + 1)
           [] b[i] = 117 ->
                LET n1 == hex4(b, i + 1)
                    n2 == hex4(b, i + 7)
                IN  IF n1 < 0 THEN JFail
                    ELSE IF n1 \in 56320..57343 THEN JOk(LoneSurrogate, i + 5)
                    ELSE IF n1 \in 55296..56319
                         THEN IF has_literal(b, i + 5, <<92, 117>>) /\ n2 \in 56320..57343
                              THEN JOk(Escaped(encode_utf8(
                                           65536 + (n1 - 55296) * 1024 + (n2 - 56320))),
                                       i + 11)
                              ELSE JOk(LoneSurrogate, i + 5)
                    ELSE JOk(Escaped(encode_utf8(n1)), i + 5)
           [] OTHER -> JFail

RECURSIVE parse_string_body(_, _, _, _)
\* the unescaped bytes from position i to the closing quote (the first quote
\* not preceded by a backslash), and whether an escape was a lone surrogate
parse_string_body(b, i, acc, lone) ==
    IF i > Len(b) THEN JFail
    ELSE IF b[i] = 34 THEN JOk([bytes |-> acc, lone |-> lone], i + 1)
    ELSE IF b[i] = 92 THEN
         Only({IF e.ok
               THEN parse_string_body(b, e.pos, acc \o e.value.bytes,
                                      lone \/ e.value.lone)
               ELSE JFail
               : e \in {parse_escape(b, i + 1)}})
    ELSE IF b[i] < 32 THEN JFail
    ELSE parse_string_body(b, i + 1, Append(acc, b[i]), lone)

\* a continuation byte of UTF-8
IsCont(c) == c \in 128..191

RECURSIVE utf8_valid(_, _)
\* str::from_utf8(bytes).is_ok(), from position i on
utf8_valid(b, i) ==
    IF i > Len(b) THEN TRUE
    ELSE IF b[i] < 128 THEN utf8_valid(b, i + 1)
    ELSE IF b[i] \in 194..223
         THEN i + 1 <= Len(b) /\ IsCont(b[i + 1]) /\ utf8_valid(b, i + 2)
    ELSE IF b[i] \in 224..239
         THEN /\ i + 2 <= Len(b)
              /\ b[i + 1] \in (IF b[i] = 224 THEN 160..191
                               ELSE IF b[i] = 237 THEN 128..159 ELSE 128..191)
              /\ IsCont(b[i + 2])
              /\ utf8_valid(b, i + 3)
    ELSE IF b[i] \in 240..244
         THEN /\ i + 3 <= Len(b)
              /\ b[i + 1] \in (IF b[i] = 240 THEN 144..191
                               ELSE IF b[i] = 244 THEN 128..143 ELSE 128..191)
              /\ IsCont(b[i + 2])
              /\ IsCont(b[i + 3])
              /\ utf8_valid(b, i + 4)
    ELSE FALSE

\* a string whose bytes are not UTF-8 or that holds a lone surrogate: no
\* String takes it, only a member that is skipped may hold it
JInvalidStr == [t |-> "invalid_str"]
\* the name of a member whose name is such a string
InvalidKey == "<invalid>"

\* a string that starts with the quote at position i
parse_string(b, i) ==
    Only({IF ~r.ok THEN JFail
          ELSE IF r.value.lone \/ ~utf8_valid(r.value.bytes, 1)
               THEN JOk(JInvalidStr, r.pos)
          ELSE JOk([t |-> "str", v |-> FromUtf8(r.value.bytes)], r.pos)
          : r \in {parse_string_body(b, i + 1, <<>>, FALSE)}})

RECURSIVE json_value(_, _)
RECURSIVE value_at(_, _)
RECURSIVE json_element(_, _)
RECURSIVE json_elements(_, _, _)
RECURSIVE json_member(_, _)
RECURSIVE json_members(_, _, _, _)

\* the JSON value that starts at or after position i0
json_value(b0, i0) == Only({value_at(b, i) : b \in {b0}, i \in {skip_ws(b0, i0)}})

\* the JSON value whose first byte is at position i
value_at(b, i) ==
    IF i > Len(b) THEN JFail
    ELSE CASE b[i] = 34 -> parse_string(b, i)
           [] b[i] = 123 ->
                LET j == skip_ws(b, i + 1) IN
                IF j <= Len(b) /\ b[j] = 125
                THEN JOk([t |-> "obj", k |-> <<>>, v |-> <<>>], j + 1)
                ELSE json_members(b, j, <<>>, <<>>)
           [] b[i] = 91 ->
                LET j == skip_ws(b, i + 1) IN
                IF j <= Len(b) /\ b[j] = 93
                THEN JOk([t |-> "arr", v |-> <<>>], j + 1)
                ELSE json_elements(b, j, <<>>)
           [] b[i] = 116 ->
                IF has_literal(b, i, JsonTrue)
                THEN JOk([t |-> "bool", v |-> TRUE], i + 4) ELSE JFail
           [] b[i] = 102 ->
                IF has_literal(b, i, JsonFalse)
                THEN JOk([t |-> "bool", v |-> FALSE], i + 5) ELSE JFail
           [] b[i] = 110 ->
                IF has_literal(b, i, JsonNull) THEN JOk(JNull, i + 4) ELSE JFail
           [] b[i] = 45 \/ IsDigit(b[i]) -> parse_number(b, i)
           [] OTHER -> JFail

\* one element of an array and the position of the separator after it
json_element(b, i) ==
    Only({IF r.ok THEN JOk(r.value, skip_ws(b, r.pos)) ELSE JFail
          : r \in {json_value(b, i)}})

\* the remaining elements of an array, up to the closing bracket
json_elements(b0, i, acc0) ==
    Only({
      IF ~e.ok \/ e.pos > Len(b) THEN JFail
      ELSE IF b[e.pos] = 44 THEN json_elements(b, e.pos + 1, Append(acc, e.value))
      ELSE IF b[e.pos] = 93 THEN JOk([t |-> "arr", v |-> Append(acc, e.value)], e.pos + 1)
      ELSE JFail
    : b \in {b0}, acc \in {acc0}, e \in {json_element(b0, i)}})

\* one member of an object ("key": value) and the position of the
\* separator after it
json_member(b, i0) ==
    LET i == skip_ws(b, i0) IN
    IF i > Len(b) \/ b[i] # 34 THEN JFail
    ELSE Only({
           IF ~key.ok THEN JFail
           ELSE LET c == skip_ws(b, key.pos) IN
                IF c > Len(b) \/ b[c] # 58 THEN JFail
                ELSE Only({
                       IF ~r.ok THEN JFail
                       ELSE JOk([key |-> IF key.value.t = "str" THEN key.value.v
                                         ELSE InvalidKey,
                                 value |-> r.value],
                                skip_ws(b, r.pos))
                     : r \in {json_value(b, c + 1)}})
         : key \in {parse_string(b, i)}})

\* the remaining members of an object, up to the closing brace
json_members(b0, i, ks0, vs0) ==
    Only({
      IF ~m.ok \/ m.pos > Len(b) THEN JFail
      ELSE IF b[m.pos] = 44
           THEN json_members(b, m.pos + 1, Append(ks, m.value.key),
                             Append(vs, m.value.value))
      ELSE IF b[m.pos] = 125
           THEN JOk([t |-> "obj", k |-> Append(ks, m.value.key),
                     v |-> Append(vs, m.value.value)], m.pos + 1)
      ELSE JFail
    : b \in {b0}, ks \in {ks0}, vs \in {vs0}, m \in {json_member(b0, i)}})

\* the largest of a set of naturals, 0 for the empty set
MaxOf(S) == IF S = {} THEN 0 ELSE CHOOSE m \in S : \A x \in S : x <= m

RECURSIVE json_depth(_)
\* how deep arrays and objects nest in a value
json_depth(v) ==
    IF v.t \in {"arr", "obj"}
    THEN 1 + MaxOf({json_depth(v.v[i]) : i \in 1..Len(v.v)})
    ELSE 0

\* the deepest nesting a parse that keeps the whole value goes into: the
\* 128th level is the RecursionLimitExceeded error
RecursionLimit == 127

RECURSIVE json_kept(_)
\* a parse that keeps the whole value (into a serde_json::Value or the
\* Content of a tagged enum) reads every string as a String and every number
\* as a Number
json_kept(v) ==
    CASE v.t = "invalid_str" -> FALSE
      [] v.t = "num" -> v.k # "out_of_range"
      [] v.t = "arr" -> \A i \in 1..Len(v.v) : json_kept(v.v[i])
      [] v.t = "obj" -> \A i \in 1..Len(v.v) : v.k[i] # InvalidKey /\ json_kept(v.v[i])
      [] OTHER -> TRUE

RECURSIVE to_value(_)
\* the serde_json::Value of a kept value: a Map holds one value per key, the
\* last one given
to_value(v) ==
    CASE v.t = "arr" -> [t |-> "arr", v |-> [i \in 1..Len(v.v) |-> to_value(v.v[i])]]
      [] v.t = "obj" ->
           LET last == {i \in 1..Len(v.k) : \A j \in (i + 1)..Len(v.k) : v.k[j] # v.k[i]}
               at == [n \in 1..Cardinality(last) |->
                         CHOOSE i \in last : Cardinality({j \in last : j <= i}) = n]
           IN  [t |-> "obj",
                k |-> [n \in 1..Cardinality(last) |-> v.k[at[n]]],
                v |-> [n \in 1..Cardinality(last) |-> to_value(v.v[at[n]])]]
      [] OTHER -> v

\* the whole text is one JSON value: the value, or a syntax error
parse_text(bytes) ==
    Only({IF ~r.ok THEN JFail
          ELSE IF skip_ws(bytes, r.pos) <= Len(bytes) THEN JFail
          ELSE r
          : r \in {json_value(bytes, 1)}})

\* serde_json::from_slice::<serde_json::Value>
value_from_slice(bytes) ==
    Only({IF r.ok /\ json_kept(r.value) /\ json_depth(r.value) <= RecursionLimit
          THEN DeOk(to_value(r.value))
          ELSE DeFail
          : r \in {parse_text(bytes)}})

\* ------------------------ #[derive(Deserialize)] of the message types
\* positions of the member called name in an object
FieldAt(o, name) == {i \in 1..Len(o.k) : o.k[i] = name}

\* the member called name of an object; members with other names are
\* ignored, a member given twice is an error
JMissing == [t |-> "missing"]
JDuplicate == [t |-> "duplicate"]
Field(o, name) ==
    IF FieldAt(o, name) = {} THEN JMissing
    ELSE IF Cardinality(FieldAt(o, name)) = 1
         THEN o.v[CHOOSE i \in FieldAt(o, name) : TRUE]
    ELSE JDuplicate

\* a struct of n fields is given as an object, every name of which is read as
\* a String, or as an array of exactly its n fields in declaration order
IsStruct(v, n) ==
    \/ v.t = "obj" /\ \A i \in 1..Len(v.k) : v.k[i] # InvalidKey
    \/ v.t = "arr" /\ Len(v.v) = n

\* the field of a struct: by name in an object, by position in an array
Member(v, name, position) ==
    IF v.t = "arr" THEN v.v[position] ELSE Field(v, name)

\* fields of the types the messages use; a missing member is an error, and
\* so is a number that is not an integer of i32
de_i32(v) == IF v.t = "num" /\ v.k = "i32" THEN DeOk(v.v) ELSE DeFail
de_bool(v) == IF v.t = "bool" THEN DeOk(v.v) ELSE DeFail
de_string(v) == IF v.t = "str" THEN DeOk(v.v) ELSE DeFail

\* Option<String>: null is None, and so is a missing member
de_option_string(v) ==
    IF v.t \in {"null", "missing"} THEN DeOk(None)
    ELSE IF v.t = "str" THEN DeOk(Some(v.v))
    ELSE DeFail

\* ipc::TabInfo, and ChromeTab which has the same fields
de_tab_info(v) ==
    IF ~IsStruct(v, 7) THEN DeFail
    ELSE LET id == de_i32(Member(v, "id", 1))
             window_id == de_i32(Member(v, "window_id", 2))
             title == de_string(Member(v, "title", 3))
             url == de_string(Member(v, "url", 4))
             fav_icon_url == de_string(Member(v, "fav_icon_url", 5))
             active == de_bool(Member(v, "active", 6))
             index == de_i32(Member(v, "index", 7))
         IN  IF id.ok /\ window_id.ok /\ title.ok /\ url.ok
                /\ fav_icon_url.ok /\ active.ok /\ index.ok
             THEN DeOk([id |-> id.value, window_id |-> window_id.value,
                        title |-> title.value, url |-> url.value,
                        fav_icon_url |-> fav_icon_url.value,
                        active |-> active.value, index |-> index.value])
             ELSE DeFail

\* Vec<TabInfo>
de_tab_infos(v) ==
    IF v.t # "arr" THEN DeFail
    ELSE IF \A i \in 1..Len(v.v) : de_tab_info(v.v[i]).ok
         THEN DeOk([i \in 1..Len(v.v) |-> de_tab_info(v.v[i]).value])
         ELSE DeFail

\* an externally tagged enum given as an object: exactly one member
IsVariant(v, name) == v.t = "obj" /\ v.k = <<name>>

\* the fields of SwitchToTab { tab_id, window_id }
de_switch_fields(v) ==
    IF ~IsStruct(v, 2) THEN DeFail
    ELSE LET t == de_i32(Member(v, "tab_id", 1))
             w == de_i32(Member(v, "window_id", 2))
         IN  IF t.ok /\ w.ok THEN DeOk(<<t.value, w.value>>) ELSE DeFail

\* ipc::ChromeExtensionCommand
de_chrome_extension_command(v) ==
    IF IsVariant(v, "SwitchToTab")
    THEN LET f == de_switch_fields(v.v[1]) IN
         IF f.ok THEN DeOk(SwitchToTab(f.value[1], f.value[2])) ELSE DeFail
    ELSE DeFail

\* ipc::IpcMessage
de_ipc_message(v) ==
    IF v.t = "str" THEN (IF v.v = "GetTabs" THEN DeOk(GetTabsMsg) ELSE DeFail)
    ELSE IF IsVariant(v, "GetTabs")
         THEN (IF v.v[1].t = "null" THEN DeOk(GetTabsMsg) ELSE DeFail)
    ELSE IF IsVariant(v, "SwitchToTab")
         THEN LET f == de_switch_fields(v.v[1]) IN
              IF f.ok THEN DeOk(SwitchToTabMsg(f.value[1], f.value[2])) ELSE DeFail
    ELSE IF IsVariant(v, "TabList")
         THEN (IF ~IsStruct(v.v[1], 1) THEN DeFail
               ELSE LET ts == de_tab_infos(Member(v.v[1], "tabs", 1)) IN
                    IF ts.ok THEN DeOk(TabListMsg(ts.value)) ELSE DeFail)
    ELSE IF IsVariant(v, "TabSwitchResult")
         THEN (IF ~IsStruct(v.v[1], 2) THEN DeFail
               ELSE LET s == de_bool(Member(v.v[1], "success", 1))
                        e == de_option_string(Member(v.v[1], "error", 2))
                    IN  IF s.ok /\ e.ok
                        THEN DeOk(TabSwitchResultMsg(s.value, e.value))
                        ELSE DeFail)
    ELSE IF IsVariant(v, "ChromeCommand")
         THEN (IF ~IsStruct(v.v[1], 1) THEN DeFail
               ELSE LET c == de_chrome_extension_command(
                                 Member(v.v[1], "command", 1)) IN
                    IF c.ok THEN DeOk(ChromeCommandMsg(c.value)) ELSE DeFail)
    ELSE DeFail

\* serde_json::from_slice::<IpcMessage>: one value, then only whitespace
from_slice(bytes) ==
    Only({
      IF ~r.ok THEN Err("Json")
      ELSE Only({IF m.ok THEN Ok(m.value) ELSE Err("Json")
                 : m \in {de_ipc_message(r.value)}})
    : r \in {parse_text(bytes)}})

\* ----------------------------------------------- dispatch of a message
\* an internally tagged enum is given as an object that has the tag among
\* its members, or as an array whose first element is the tag: the tag, and
\* the content the variant is read from
JMissingTag == [t |-> "missing"]
TagOf(v, tag_name) ==
    IF v.t = "obj" THEN Field(v, tag_name)
    ELSE IF v.t = "arr" /\ Len(v.v) >= 1 THEN v.v[1]
    ELSE JMissingTag
TagContent(v) == IF v.t = "arr" THEN [t |-> "arr", v |-> Tail(v.v)] ELSE v

\* ------------------------------------------------------ WebSocketMessage
WsRequestMsg(id, method, params) ==
    [type |-> "request", id |-> id, method |-> method, params |-> params]

\* a Response that does not take the id of the request
response_ok_fixed_id(id, result) ==
    [type |-> "response", id |-> "0", result |-> Some(result), error |-> None]

\* WebSocketMessage::response_ok
response_ok(id, result) ==
    [type |-> "response", id |-> id, result |-> Some(result), error |-> None]

\* an error turned into a Response with a result
response_error_as_ok(id, code, message) ==
    [type |-> "response", id |-> id, result |-> Some([success |-> FALSE]),
     error |-> None]

\* WebSocketMessage::response_error; a message is the sequence of the pieces
\* format! joins
response_error(id, code, message) ==
    [type |-> "response", id |-> id, result |-> None,
     error |-> Some([code |-> code, message |-> message])]

\* WebSocketMessage::event
event(ev, data) == [type |-> "event", event |-> ev, data |-> data]

\* nothing sent on the session yet
NoFrame == [type |-> "NoFrame"]

\* wall-clock readings of chrono::Utc::now().timestamp_millis()
Timestamps == {42}

\* Option<serde_json::Value>: null and a missing member are None
de_option_value(v) ==
    IF v.t \in {"null", "missing"} THEN DeOk(None)
    ELSE IF v.t = "duplicate" THEN DeFail
    ELSE DeOk(Some(to_value(v)))

\* a struct variant of an untagged enum is given as an object only: its
\* visitor has no visit_seq, so an array matches no variant
IsUntaggedStruct(v) == v.t = "obj" /\ IsStruct(v, 0)

\* the untagged ResponseResult: the first variant that deserializes
de_response_result(v) ==
    IF IsUntaggedStruct(v) /\ de_tab_infos(Field(v, "tabs")).ok
    THEN DeOk([tabs |-> de_tab_infos(Field(v, "tabs")).value])
    ELSE IF IsUntaggedStruct(v) /\ de_bool(Field(v, "success")).ok
    THEN DeOk([success |-> de_bool(Field(v, "success")).value])
    ELSE IF /\ IsUntaggedStruct(v)
            /\ Field(v, "timestamp").t = "num"
            /\ Field(v, "timestamp").k \in {"i32", "i64"}
    THEN DeOk([timestamp |-> Field(v, "timestamp")])
    ELSE DeFail

\* ErrorInfo
de_error_info(v) ==
    IF IsStruct(v, 2) /\ de_i32(Member(v, "code", 1)).ok
       /\ de_string(Member(v, "message", 2)).ok
    THEN DeOk([code |-> de_i32(Member(v, "code", 1)).value,
               message |-> de_string(Member(v, "message", 2)).value])
    ELSE DeFail

\* Option<T> of a member read by de: null and a missing member are None
de_option(v, r) ==
    IF v.t \in {"null", "missing"} THEN DeOk(None)
    ELSE IF r.ok THEN DeOk(Some(r.value))
    ELSE DeFail

\* EventType, an enum of unit variants read from the buffered content of the
\* tagged message: the name of a variant, or an object of that one name
\* whose value is a unit, for which null and the empty object both stand
de_event_type(v) ==
    LET name == IF /\ v.t = "obj" /\ Len(v.k) = 1
                   /\ \/ v.v[1].t = "null"
                      \/ v.v[1].t = "obj" /\ Len(v.v[1].k) = 0
                THEN [t |-> "str", v |-> v.k[1]] ELSE v
    IN  IF name.t = "str" /\ name.v \in {"tabSwitchRequested", "tabsUpdated"}
        THEN DeOk(name.v) ELSE DeFail

\* the untagged EventData: the first variant that deserializes
de_event_data(v) ==
    IF IsUntaggedStruct(v) /\ de_switch_fields(v).ok
    THEN DeOk([tab_id |-> de_switch_fields(v).value[1],
               window_id |-> de_switch_fields(v).value[2]])
    ELSE IF IsUntaggedStruct(v) /\ de_tab_infos(Field(v, "tabs")).ok
    THEN DeOk([tabs |-> de_tab_infos(Field(v, "tabs")).value])
    ELSE DeFail

\* WebSocketMessage, tagged by the member "type": members a variant does not
\* know are ignored, a missing one that is not an Option is an error
de_websocket_message(v) ==
    LET tag == TagOf(v, "type")
        c == TagContent(v)
    IN  IF tag.t # "str" THEN DeFail
        ELSE IF tag.v = "request"
             THEN IF ~IsStruct(c, 3) THEN DeFail
                  ELSE LET id == de_string(Member(c, "id", 1))
                           method == de_string(Member(c, "method", 2))
                           params == de_option_value(Member(c, "params", 3))
                       IN  IF id.ok /\ method.ok /\ params.ok
                           THEN DeOk(WsRequestMsg(id.value, method.value, params.value))
                           ELSE DeFail
        ELSE IF tag.v = "response"
             THEN IF ~IsStruct(c, 3) THEN DeFail
                  ELSE LET id == de_string(Member(c, "id", 1))
                           result == de_option(Member(c, "result", 2),
                                         de_response_result(Member(c, "result", 2)))
                           error == de_option(Member(c, "error", 3),
                                        de_error_info(Member(c, "error", 3)))
                       IN  IF id.ok /\ result.ok /\ error.ok
                           THEN DeOk([type |-> "response", id |-> id.value,
                                      result |-> result.value, error |-> error.value])
                           ELSE DeFail
        ELSE IF tag.v = "event"
             THEN IF ~IsStruct(c, 2) THEN DeFail
                  ELSE LET ev == de_event_type(Member(c, "event", 1))
                           data == de_event_data(Member(c, "data", 2))
                       IN  IF ev.ok /\ data.ok
                           THEN DeOk(event(ev.value, data.value))
                           ELSE DeFail
        ELSE DeFail

\* serde_json::from_str::<WebSocketMessage>: the text is read whole into the
\* content of the tagged enum, from which the variant is deserialized; the
\* caller logs the serde_json::Error whatever its category
from_str(text) ==
    Only({
      IF ~r.ok THEN Err("Json")
      ELSE IF ~json_kept(r.value) \/ json_depth(r.value) > RecursionLimit
           THEN Err("Json")
      ELSE Only({IF m.ok THEN Ok(m.value) ELSE Err("Json")
                 : m \in {de_websocket_message(r.value)}})
    : r \in {parse_text(text)}})

\* params that never deserialize
ParseUpdateTabsParamsNever(v) == None

\* serde_json::from_value::<UpdateTabsParams>: tabs is a Vec<ChromeTab>
ParseUpdateTabsParams(v) ==
    IF IsStruct(v, 1) /\ de_tab_infos(Member(v, "tabs", 1)).ok
    THEN Some([tabs |-> de_tab_infos(Member(v, "tabs", 1)).value])
    ELSE None

\* params deserialized with the two members exchanged
ParseSwitchTabParamsSwapped(v) ==
    IF de_switch_fields(v).ok
    THEN Some([tab_id |-> de_switch_fields(v).value[2],
               window_id |-> de_switch_fields(v).value[1]])
    ELSE None

\* serde_json::from_value::<SwitchTabParams>: tab_id and window_id are i32
ParseSwitchTabParams(v) ==
    IF de_switch_fields(v).ok
    THEN Some([tab_id |-> de_switch_fields(v).value[1],
               window_id |-> de_switch_fields(v).value[2]])
    ELSE None

\* {"type":"request","id":id,"method":method} with "params":params when
\* params is not the empty text
json_request(id, method, params) ==
    <<123>> \o json_key("type") \o json_string("request")
    \o <<44>> \o json_key("id") \o json_string(id)
    \o <<44>> \o json_key("method") \o json_string(method)
    \o (IF params = <<>> THEN <<>> ELSE <<44>> \o json_key("params") \o params)
    \o <<125>>

\* {"tabs":[...]} with the tabs as ChromeTab writes them
json_tabs_params(ts) ==
    <<123>> \o json_key("tabs") \o <<91>> \o json_tab_infos(ts) \o <<93, 125>>

\* {"tab_id":t,"window_id":w}
json_switch_params(t, w) == <<123>> \o json_switch_fields(t, w) \o <<125>>

\* params no method takes: {"foo":1}
BadParams == <<123>> \o json_key("foo") \o json_i32(1) \o <<125>>

\* params whose members have the names but not the types: {"tabs":5},
\* {"tabs":[{"id":1}]} and {"tab_id":"5","window_id":2}
TabsNotAList == <<123>> \o json_key("tabs") \o json_i32(5) \o <<125>>
TabsIncomplete ==
    <<123>> \o json_key("tabs") \o <<91, 123>> \o json_key("id") \o json_i32(1)
    \o <<125, 93, 125>>
TabIdAsString ==
    <<123>> \o json_key("tab_id") \o json_string("5")
    \o <<44>> \o json_key("window_id") \o json_i32(2) \o <<125>>

\* the texts of the requests a browser sends
WsRequestTexts ==
    {json_request("1", "getTabs", <<>>), json_request("1", "keepAlive", <<>>),
     json_request("2", "bogus", <<>>),
     json_request("1", "updateTabs", <<>>),
     json_request("1", "updateTabs", TabsNotAList),
     json_request("1", "updateTabs", TabsIncomplete),
     json_request("1", "switchToTab", BadParams),
     json_request("1", "switchToTab", TabIdAsString)}
    \cup {json_request("1", "updateTabs", json_tabs_params(ts)) : ts \in TabLists}
    \cup {json_request("1", "switchToTab", json_switch_params(p[1], p[2])) :
              p \in SwitchTargets}

\* the Requests these texts are
WsRequests == {from_str(text).value : text \in WsRequestTexts}

\* a handler that answers every request as keepAlive and queues a command
handle_request_queueing(id, method, params, now, ts, q) ==
    [response |-> response_ok(id, [timestamp |-> now]),
     tabs |-> ts, queue |-> queue_command(q, SwitchToTab(5, 2))]

\* handle_request: the response and the TabManager state it leaves
handle_request(id, method, params, now, ts, q) ==
    CASE method = "getTabs" ->
           [response |-> response_ok(id, [tabs |-> get_tabs(ts)]),
            tabs |-> ts, queue |-> q]
      [] method = "updateTabs" ->
           IF params = None
           THEN [response |-> response_error(id, 400, <<"Missing params for updateTabs">>),
                 tabs |-> ts, queue |-> q]
           ELSE LET parsed == ParseUpdateTabsParams(params.value) IN
                IF parsed = None
                THEN [response |-> response_error(id, 400, <<"Invalid updateTabs params">>),
                      tabs |-> ts, queue |-> q]
                ELSE [response |-> response_ok(id, [success |-> TRUE]),
                      tabs |-> update_tabs(ts, parsed.value.tabs), queue |-> q]
      [] method = "switchToTab" ->
           IF params = None
           THEN [response |-> response_error(id, 400, <<"Missing params for switchToTab">>),
                 tabs |-> ts, queue |-> q]
           ELSE LET parsed == ParseSwitchTabParams(params.value) IN
                IF parsed = None
                THEN [response |-> response_error(id, 400, <<"Invalid switchToTab params">>),
                      tabs |-> ts, queue |-> q]
                ELSE [response |-> response_ok(id, [success |-> TRUE]),
                      tabs |-> ts,
                      queue |-> queue_command(q, SwitchToTab(parsed.value.tab_id,
                                                             parsed.value.window_id))]
      [] method = "keepAlive" ->
           [response |-> response_ok(id, [timestamp |-> now]),
            tabs |-> ts, queue |-> q]
      [] OTHER ->
           [response |-> response_error(id, 404, <<"Unknown method: ", method>>),
            tabs |-> ts, queue |-> q]

\* ----------------------------------------------------- run_ipc_server arms
\* the match with the GetTabs arm answering the tab list before the queue
ipc_handle_tabs_first(m, ts, q) ==
    CASE m.type = "GetTabs" ->
           [response |-> Some(TabListMsg(MapSeq(ToTabInfo, get_tabs(ts)))),
            tabs |-> ts, queue |-> q, pop |-> None, next |-> "respond"]
      [] m.type = "TabList" ->
           [response |-> Some(TabSwitchResultMsg(TRUE, None)),
            tabs |-> update_tabs(ts, MapSeq(ToChromeTab, m.tabs)),
            queue |-> q, pop |-> None, next |-> "respond"]
      [] m.type = "SwitchToTab" ->
           [response |-> Some(TabSwitchResultMsg(TRUE, None)),
            tabs |-> ts, queue |-> q, pop |-> None, next |-> "respond"]
      [] OTHER ->
           [response |-> None, tabs |-> ts, queue |-> q, pop |-> None,
            next |-> "read"]

\* the second lock of the GetTabs arm, taken when pop_command returned None
ipc_tab_list(ts) == TabListMsg(MapSeq(ToTabInfo, get_tabs(ts)))

\* the match on the message read from the pipe up to its first TabManager
\* call: the response to write (None when there is none yet), the TabManager
\* state it leaves and where the loop goes next; the GetTabs arm goes on to
\* get_tabs when pop_command returned None, the last arm continues
ipc_handle(m, ts, q) ==
    CASE m.type = "GetTabs" ->
           LET r == pop_command(q) IN
           IF r.result # None
           THEN [response |-> Some(ChromeCommandMsg(ToExtCommand(r.result.value))),
                 tabs |-> ts, queue |-> r.queue, pop |-> Some(r.result),
                 next |-> "respond"]
           ELSE [response |-> None,
                 tabs |-> ts, queue |-> r.queue, pop |-> Some(r.result),
                 next |-> "get_tabs"]
      [] m.type = "SwitchToTab" ->
           [response |-> Some(TabSwitchResultMsg(TRUE, None)),
            tabs |-> ts, queue |-> q, pop |-> None, next |-> "respond"]
      [] m.type = "TabList" ->
           [response |-> Some(TabSwitchResultMsg(TRUE, None)),
            tabs |-> update_tabs(ts, MapSeq(ToChromeTab, m.tabs)),
            queue |-> q, pop |-> None, next |-> "respond"]
      [] OTHER ->
           [response |-> None, tabs |-> ts, queue |-> q, pop |-> None,
            next |-> "read"]

\* bytes of a message body: text followed by pad bytes of JSON whitespace
\* (0x20); read is how many of them the reader has taken from the stream
Body(text, pad, read) == [text |-> text, pad |-> pad, read |-> read]
\* no body byte was read
NoBody == Body(<<>>, 0, 0)

\* the connection between the bridge's NamedPipeClient and the server's
\* NamedPipeServer: conn is "none" when the bridge holds no client,
\* "connected" when both ends are open, "client_closed" once the bridge has
\* dropped its client, "server_closed" once the server has dropped its
\* instance while the bridge still holds the client; to_server and to_bridge
\* are the messages written into the pipe and not yet read
Pipe(conn, to_server, to_bridge) ==
    [conn |-> conn, to_server |-> to_server, to_bridge |-> to_bridge]
NoPipe == Pipe("none", <<>>, <<>>)

\* send_message between two awaits: pc is "idle" outside a call, "write"
\* inside a write_all, "flush" inside flush; bufs are the buffers still to
\* be written, the first of them without the bytes already written
WriterAt(pc, bufs) == [pc |-> pc, bufs |-> bufs]
WriterIdle == WriterAt("idle", <<>>)

\* read_message between two awaits: pc is "length" inside the first
\* read_exact and "body" inside the second; buf holds the bytes read so far
\* into the buffer being filled, which still wants `want` bytes
ReaderAt(pc, buf, want) == [pc |-> pc, buf |-> buf, want |-> want]

\* a return of read_message: its result, the message whose envelope was the
\* oldest one not yet read, and the number of bytes the call consumed
FrStep(result, expected, consumed) ==
    [result |-> result, expected |-> expected, consumed |-> consumed]
NoFrStep == FrStep(NoResult, None, 0)

VARIABLES
    tabs,            \* TabManager.tabs
    command_queue,   \* TabManager.command_queue
    ipc_pc,          \* position of run_ipc_server
    ipc_request,     \* message read from the pipe and not yet answered
    ipc_response,    \* response computed by the message loop, being written
    ws_state,        \* per connection: position of handle_connection
    command_rx,      \* per connection: contents of the mpsc channel
    poller_held,     \* per connection: the command its poller popped and is sending into the channel
    ws_sending,      \* per connection: the message handle_connection gave to ws_sender.send
    pushed,          \* history: every command given to queue_command, in order
    popped,          \* history: every command returned by pop_command, in order
    sent,            \* history: number of commands written to the browser side
    last_update,     \* history: the tab list of the latest TabList / updateTabs
    tm_log,          \* history: the calls one thread made on a TabManager, with results
    nh_pc,           \* bridge: position inside communicate_with_launcher
    nh_message,      \* bridge: the message communicate_with_launcher was given
    nh_result,       \* bridge: what the latest communicate_with_launcher returned
    conn_attempts,   \* bridge: open attempts made by the running connect_to_ipc_server
    conn_slept_ms,   \* bridge: milliseconds slept by the running connect_to_ipc_server
    ex_pipe,         \* exchange: the connection between the bridge and the pipe server
    window,          \* launcher: whether its window is open, told to close, or closed and the process over
    fr_capacity,     \* framing: bytes the stream holds between writer and reader, 0 before it exists
    fr_stream,       \* framing: the bytes written to the stream and not yet read
    fr_sent,         \* framing: the messages given to send_message that no read_message returned yet
    fr_calls,        \* history: number of send_message calls made
    fr_writer,       \* framing: position of send_message and the buffers it still has to write
    fr_reader,       \* framing: position of read_message and the buffer it is filling
    fr_pos,          \* framing: number of bytes the running read_message has consumed
    fr_reads,        \* history: number of read_message calls that returned
    fr_step,         \* history: the latest return of read_message
    rd_pc,           \* pipe reader: position inside read_message
    rd_prefix,       \* pipe reader: the 4 length bytes read
    rd_body,         \* pipe reader: the body bytes read
    rd_results,      \* pipe reader: what each read_message on the connection returned
    br_pc,           \* bridge: position of the stdin loop of main
    br_prefix,       \* bridge: the 4 length bytes read from stdin
    br_body,         \* bridge: the body bytes read from stdin
    br_written,      \* bridge: the Responses written to stdout, in order
    br_sent,         \* bridge: the messages given to communicate_with_launcher, in order
    br_exit,         \* bridge: what main returned
    br_reads,        \* history: number of lengths read from stdin
    br_step,         \* history: the latest pass of the bridge's loop that reached the JSON parse
    ws_step,         \* history: the latest step of a WebSocket session and what it sent
    ws_order,        \* history: per session, the commands its poller popped and the commands of the
                     \* tabSwitchRequested events it sent, each in order
    lk_owner,        \* TabManager: the thread holding the tabs mutex and the one holding the command_queue mutex
    lk_pc,           \* each thread's position in the TabManager method it called
    lk_call,         \* each thread's current TabManager call
    lk_ret,          \* history: the latest TabManager call that returned, with its result
    lk_calls         \* history: number of TabManager calls made

vars == <<tabs, command_queue, ipc_pc, ipc_request, ipc_response,
          ws_state, command_rx, poller_held, ws_sending,
          pushed, popped, sent, last_update, tm_log,
          nh_pc, nh_message, nh_result, conn_attempts, conn_slept_ms, ex_pipe, window,
          fr_capacity, fr_stream, fr_sent, fr_calls, fr_writer, fr_reader,
          fr_pos, fr_reads, fr_step,
          rd_pc, rd_prefix, rd_body, rd_results,
          br_pc, br_prefix, br_body, br_written, br_sent, br_exit, br_reads, br_step, ws_step,
          ws_order,
          lk_owner, lk_pc, lk_call, lk_ret, lk_calls>>

\* one step of session s: the frame it handled (or the timer tick, the
\* channel receive, the handshake, the return of a send), the command a tick
\* popped or the poller sent into the channel, the messages the step gave to
\* ws_sender.send, the send that returned with its outcome, and the tab
\* list, the command queue and the position of the session it started from
WsStep(s, kind, frame, popped_cmd, sends, done) ==
    [session |-> s, kind |-> kind, frame |-> frame,
     popped |-> popped_cmd, sends |-> sends, done |-> done,
     before |-> [tabs |-> tabs, queue |-> command_queue, state |-> ws_state[s],
                 ws_state |-> ws_state]]
NoWsFrame == [frame |-> "none"]
NoStep ==
    [session |-> 0, kind |-> "none", frame |-> NoWsFrame,
     popped |-> None, sends |-> <<>>, done |-> None,
     before |-> [tabs |-> <<>>, queue |-> <<>>, state |-> "idle",
                 ws_state |-> [s \in Sessions |-> "idle"]]]

\* one pass of the bridge's loop from the JSON parse on: the body read from
\* stdin, whether it parsed, what communicate_with_launcher returned (when
\* it was called), the message given to it, the Response made and whether
\* it was written to stdout, the number of Responses written before the
\* pass, and where the loop went next
BrStep(text, parsed, result, sent_msg, response, written, next) ==
    [text |-> text, parsed |-> parsed, result |-> result, sent |-> sent_msg,
     response |-> response, written |-> written, next |-> next,
     before |-> Len(br_written)]
NoBrStep ==
    [text |-> <<>>, parsed |-> FALSE, result |-> NoResult, sent |-> None,
     response |-> None, written |-> FALSE, next |-> "length", before |-> 0]

\* the threads of control that call the shared TabManager: the pipe server
\* thread, the tokio tasks of the WebSocket server, the UI thread
Threads == {"pipe", "ws", "ui"}
\* the two std::sync::Mutex of a TabManager
LockNames == {"tabs", "command_queue"}
NoThread == "free"
NoCall == [op |-> "none"]
\* the latest TabManager call that returned: the call, the value it returned,
\* the argument of the latest update_tabs completed when it ran, and the
\* tab list and the queue before and after it ran
NoReturn ==
    [thread |-> NoThread, call |-> NoCall, value |-> <<>>, latest |-> <<>>,
     before |-> [tabs |-> <<>>, queue |-> <<>>],
     after |-> [tabs |-> <<>>, queue |-> <<>>]]

\* tokio::sync::mpsc::channel::<(i32, i32)>(32)
ChannelCapacity == 32

TypeOK ==
    /\ tabs \in Seq({TabA, TabB})
    /\ command_queue \in Seq({SwitchToTab(p[1], p[2]) : p \in SwitchTargets})
    /\ ipc_pc \in {"create", "sleep", "listen", "read", "get_tabs", "respond"}
    /\ ws_state \in [Sessions -> {"idle", "failed", "greeting", "active",
                                   "sending", "closed"}]
    /\ Len(pushed) <= MaxCmds

Init ==
    /\ tabs = <<>>
    /\ command_queue = <<>>
    /\ ipc_pc = "create"
    /\ ipc_request = NoMsg
    /\ ipc_response = NoMsg
    /\ ws_state = [s \in Sessions |-> "idle"]
    /\ command_rx = [s \in Sessions |-> <<>>]
    /\ poller_held = [s \in Sessions |-> None]
    /\ ws_sending = [s \in Sessions |-> None]
    /\ pushed = <<>>
    /\ popped = <<>>
    /\ sent = 0
    /\ last_update = <<>>
    /\ tm_log = <<>>
    /\ nh_pc = "idle"
    /\ nh_message = NoMsg
    /\ nh_result = NoResult
    /\ conn_attempts = 0
    /\ conn_slept_ms = 0
    /\ ex_pipe = NoPipe
    /\ window = "open"
    /\ fr_capacity = 0
    /\ fr_stream = <<>>
    /\ fr_sent = <<>>
    /\ fr_calls = 0
    /\ fr_writer = WriterIdle
    /\ fr_reader = ReaderAt("length", <<>>, 4)
    /\ fr_pos = 0
    /\ fr_reads = 0
    /\ fr_step = NoFrStep
    /\ rd_pc = "length"
    /\ rd_prefix = <<0, 0, 0, 0>>
    /\ rd_body = NoBody
    /\ rd_results = <<>>
    /\ br_pc = "length"
    /\ br_prefix = <<0, 0, 0, 0>>
    /\ br_body = NoBody
    /\ br_written = <<>>
    /\ br_sent = <<>>
    /\ br_exit = NoResult
    /\ br_reads = 0
    /\ br_step = NoBrStep
    /\ ws_step = NoStep
    /\ ws_order = [s \in Sessions |-> [popped |-> <<>>, emitted |-> <<>>]]
    /\ lk_owner = [m \in LockNames |-> NoThread]
    /\ lk_pc = [t \in Threads |-> "io"]
    /\ lk_call = [t \in Threads |-> NoCall]
    /\ lk_ret = NoReturn
    /\ lk_calls = 0

ipc_vars == <<ipc_pc, ipc_request, ipc_response>>
\* state of the other processes and of the single-threaded TabManager caller
nh_vars == <<nh_pc, nh_message, nh_result, conn_attempts, conn_slept_ms>>
fr_vars == <<fr_capacity, fr_stream, fr_sent, fr_calls, fr_writer, fr_reader,
             fr_pos, fr_reads, fr_step>>
rd_vars == <<rd_pc, rd_prefix, rd_body, rd_results>>
br_vars == <<br_pc, br_prefix, br_body, br_written, br_sent, br_exit, br_reads, br_step>>
lk_vars == <<lk_owner, lk_pc, lk_call, lk_ret, lk_calls>>
not_launcher == <<ws_step, ws_order, tm_log, lk_vars, nh_vars, ex_pipe, fr_vars, rd_vars, br_vars>>
launcher_vars == <<tabs, command_queue, ipc_vars, ws_state, command_rx,
                   poller_held, ws_sending,
                   pushed, popped, sent, last_update>>
ws_vars == <<ws_state, command_rx, poller_held, ws_sending>>
store_vars == <<tabs, last_update>>
queue_vars == <<command_queue, pushed, popped>>

\* ------------------------------------------------------------ launcher UI
\* the launcher's process, and with it the thread of the pipe server and
\* every task that shares the TabManager, runs until the window has closed
LauncherRuns == window # "closed"

\* LauncherApp::execute_selected on a SwitchToTab result: the command is
\* queued and the window is told to close; the frame goes on, and a second
\* call in it (the Enter key is looked at in two places) queues again
UiQueueCommand(p) ==
    /\ LauncherRuns
    /\ Len(pushed) < MaxCmds
    /\ command_queue' = queue_command(command_queue, SwitchToTab(p[1], p[2]))
    /\ pushed' = Append(pushed, SwitchToTab(p[1], p[2]))
    /\ window' = "closing"
    /\ UNCHANGED <<ipc_vars, ws_vars, store_vars, popped, sent>>
    /\ UNCHANGED not_launcher

\* handle_keyboard_input on Esc, or execute_selected on a result that is not
\* a tab: the window is told to close and nothing is queued
UiEscape ==
    /\ window = "open"
    /\ window' = "closing"
    /\ UNCHANGED <<launcher_vars, not_launcher>>

\* the window closes: eframe::run_native returns, main returns and the
\* process ends, the pipe server's thread and its pipe instance with it
UiExit ==
    /\ window = "closing"
    /\ window' = "closed"
    /\ ex_pipe' = IF ex_pipe.conn = "connected"
                  THEN Pipe("server_closed", <<>>, ex_pipe.to_bridge)
                  ELSE IF ex_pipe.conn = "client_closed" THEN NoPipe
                  ELSE ex_pipe
    /\ UNCHANGED <<launcher_vars, ws_step, ws_order, tm_log, lk_vars, nh_vars,
                   fr_vars, rd_vars, br_vars>>

\* --------------------------------------------------------- run_ipc_server
\* create_ipc_server() returned Ok: the endpoint exists, wait for a client
IpcCreateOk ==
    /\ LauncherRuns
    /\ ipc_pc = "create"
    /\ ipc_pc' = "listen"
    /\ UNCHANGED <<ipc_request, ipc_response, ws_vars, store_vars, queue_vars, sent>>
    /\ UNCHANGED <<not_launcher, window>>

\* create_ipc_server() returned Err: sleep 5 s
IpcCreateFail ==
    /\ LauncherRuns
    /\ ipc_pc = "create"
    /\ ipc_pc' = "sleep"
    /\ UNCHANGED <<ipc_request, ipc_response, ws_vars, store_vars, queue_vars, sent>>
    /\ UNCHANGED <<not_launcher, window>>

\* the 5 s sleep is over: next iteration of the outer loop
IpcSleepDone ==
    /\ LauncherRuns
    /\ ipc_pc = "sleep"
    /\ ipc_pc' = "create"
    /\ UNCHANGED <<ipc_request, ipc_response, ws_vars, store_vars, queue_vars, sent>>
    /\ UNCHANGED <<not_launcher, window>>

\* server.connect() returned Ok
IpcConnectOk ==
    /\ LauncherRuns
    /\ ipc_pc = "listen"
    /\ ipc_pc' = "read"
    /\ UNCHANGED <<ipc_request, ipc_response, ws_vars, store_vars, queue_vars, sent>>
    /\ UNCHANGED <<not_launcher, window>>

\* server.connect() returned Err: next iteration of the outer loop
IpcConnectFail ==
    /\ LauncherRuns
    /\ ipc_pc = "listen"
    /\ ipc_pc' = "create"
    /\ UNCHANGED <<ipc_request, ipc_response, ws_vars, store_vars, queue_vars, sent>>
    /\ UNCHANGED <<not_launcher, window>>

\* a read error ending the server task instead of the connection
IpcReadFailStops ==
    /\ LauncherRuns
    /\ ipc_pc = "read"
    /\ ipc_pc' = "stopped"
    /\ ipc_request' = NoMsg
    /\ UNCHANGED <<ipc_response, ws_vars, store_vars, queue_vars, sent>>
    /\ UNCHANGED <<not_launcher, window>>

\* read_message returned Err (closed pipe, truncated frame, bad JSON): break
IpcReadFail ==
    /\ LauncherRuns
    /\ ipc_pc = "read"
    /\ ipc_pc' = "create"
    /\ ipc_request' = NoMsg
    /\ UNCHANGED <<ipc_response, ws_vars, store_vars, queue_vars, sent>>
    /\ UNCHANGED <<not_launcher, window>>

\* read_message returned Ok(m): the match up to its first TabManager call
IpcRead(m) ==
    /\ LauncherRuns
    /\ ipc_pc = "read"
    /\ LET h == ipc_handle(m, tabs, command_queue) IN
       /\ tabs' = h.tabs
       /\ last_update' = IF m.type = "TabList" THEN m.tabs ELSE last_update
       /\ command_queue' = h.queue
       /\ popped' = IF h.pop # None /\ h.pop.value # None
                       THEN Append(popped, h.pop.value.value) ELSE popped
       /\ ipc_request' = m
       /\ ipc_pc' = h.next
       /\ ipc_response' = IF h.response = None THEN ipc_response
                                               ELSE h.response.value
    /\ UNCHANGED <<ws_vars, pushed, sent>>
    /\ UNCHANGED <<not_launcher, window>>

\* the GetTabs arm after pop_command returned None: get_tabs() makes the
\* TabList response
IpcGetTabs ==
    /\ LauncherRuns
    /\ ipc_pc = "get_tabs"
    /\ ipc_pc' = "respond"
    /\ ipc_response' = ipc_tab_list(tabs)
    /\ UNCHANGED <<ipc_request, ws_vars, store_vars, queue_vars, sent>>
    /\ UNCHANGED <<not_launcher, window>>

\* send_message returned Ok: back to read_message
IpcSendOk ==
    /\ LauncherRuns
    /\ ipc_pc = "respond"
    /\ ipc_pc' = "read"
    /\ ipc_request' = NoMsg
    /\ ipc_response' = NoMsg
    /\ sent' = IF ipc_response.type = "ChromeCommand"
                  THEN sent + 1
                  ELSE sent
    /\ UNCHANGED <<ws_vars, store_vars, queue_vars>>
    /\ UNCHANGED <<not_launcher, window>>

\* send_message returned Err: break, the connection is dropped
IpcSendFail ==
    /\ LauncherRuns
    /\ ipc_pc = "respond"
    /\ ipc_pc' = "create"
    /\ ipc_request' = NoMsg
    /\ ipc_response' = NoMsg
    /\ UNCHANGED <<ws_vars, store_vars, queue_vars, sent>>
    /\ UNCHANGED <<not_launcher, window>>

IpcServer ==
    \/ IpcCreateOk \/ IpcCreateFail \/ IpcSleepDone
    \/ IpcConnectOk \/ IpcConnectFail
    \/ IpcReadFail \/ (\E m \in ClientMessages : IpcRead(m)) \/ IpcGetTabs
    \/ IpcSendOk \/ IpcSendFail

\* ------------------------------------------------------ handle_connection
\* the poller task is spawned after the initial event and its loop has no exit
poller_running(st) == st \in {"active", "sending", "closed"}

\* accept_async returned Err: handle_connection returns before spawning
WsHandshakeFail(s) ==
    /\ LauncherRuns
    /\ ws_state[s] = "idle"
    /\ ws_state' = [ws_state EXCEPT ![s] = "failed"]
    /\ UNCHANGED <<ipc_vars, command_rx, poller_held, ws_sending,
                   store_vars, queue_vars, sent>>
    /\ UNCHANGED <<not_launcher, window>>

\* handshake done: the tabsUpdated event with get_tabs() is given to send
WsAccept(s) ==
    /\ LauncherRuns
    /\ ws_state[s] = "idle"
    /\ ws_state' = [ws_state EXCEPT ![s] = "greeting"]
    /\ ws_sending' = [ws_sending EXCEPT ![s] =
                         Some(event("tabsUpdated", [tabs |-> get_tabs(tabs)]))]
    /\ UNCHANGED <<ipc_vars, command_rx, poller_held, store_vars, queue_vars, sent>>
    /\ UNCHANGED <<not_launcher, window>>

\* the send of the initial event returned, its result is discarded: the
\* channel is created and the poller spawned
WsGreeted(s, ok) ==
    /\ LauncherRuns
    /\ ok \in BOOLEAN
    /\ ws_state[s] = "greeting"
    /\ ws_state' = [ws_state EXCEPT ![s] = "active"]
    /\ ws_sending' = [ws_sending EXCEPT ![s] = None]
    /\ UNCHANGED <<ipc_vars, command_rx, poller_held, store_vars, queue_vars, sent>>
    /\ UNCHANGED <<not_launcher, window>>

\* one iteration of the spawned loop after its 50 ms sleep: pop_command; a
\* popped command is held by the task for the send into the channel
PollerTick(s) ==
    /\ LauncherRuns
    /\ poller_running(ws_state[s])
    /\ poller_held[s] = None
    /\ LET r == pop_command(command_queue) IN
       /\ command_queue' = r.queue
       /\ popped' = IF r.result # None THEN Append(popped, r.result.value) ELSE popped
       /\ poller_held' = IF r.result # None
                            THEN [poller_held EXCEPT ![s] =
                                     Some(<<r.result.value.tab_id,
                                            r.result.value.window_id>>)]
                            ELSE poller_held
    /\ UNCHANGED <<ipc_vars, ws_state, command_rx, ws_sending, store_vars, pushed, sent>>
    /\ UNCHANGED <<not_launcher, window>>

\* command_tx.send(..).await of the poller returned: the command went into
\* the channel once it had room, or the receiver is gone and the send
\* failed; the result is discarded
PollerSend(s) ==
    /\ LauncherRuns
    /\ poller_held[s] # None
    /\ poller_held' = [poller_held EXCEPT ![s] = None]
    /\ IF ws_state[s] = "closed"
          THEN UNCHANGED command_rx
          ELSE /\ Len(command_rx[s]) < ChannelCapacity
               /\ command_rx' = [command_rx EXCEPT ![s] =
                                    Append(@, poller_held[s].value)]
    /\ UNCHANGED <<ipc_vars, ws_state, ws_sending, store_vars, queue_vars, sent>>
    /\ UNCHANGED <<not_launcher, window>>

\* a text frame holding a Request: handle_request, and the response is given
\* to send
WsRequest(s, req, now) ==
    /\ LauncherRuns
    /\ ws_state[s] = "active"
    /\ LET h == handle_request(req.id, req.method, req.params, now,
                              tabs, command_queue) IN
       /\ Len(h.queue) > Len(command_queue) => Len(pushed) < MaxCmds
       /\ tabs' = h.tabs
       /\ last_update' =
              IF /\ req.method = "updateTabs"
                 /\ req.params # None
                 /\ ParseUpdateTabsParams(req.params.value) # None
              THEN ParseUpdateTabsParams(req.params.value).value.tabs
              ELSE last_update
       /\ command_queue' = h.queue
       /\ pushed' = IF Len(h.queue) > Len(command_queue)
                       THEN Append(pushed, h.queue[Len(h.queue)]) ELSE pushed
       /\ ws_sending' = [ws_sending EXCEPT ![s] = Some(h.response)]
    /\ ws_state' = [ws_state EXCEPT ![s] = "sending"]
    /\ UNCHANGED <<ipc_vars, command_rx, poller_held, popped, sent>>
    /\ UNCHANGED <<not_launcher, window>>

\* Message::Pong(data)
PongMessage(data) == [type |-> "pong", data |-> data]

\* payloads of the ping frames a browser sends
PingPayloads == {<<1>>}

\* a ping frame: Message::Pong with the same payload is given to send
WsPing(s, data) ==
    /\ LauncherRuns
    /\ ws_state[s] = "active"
    /\ ws_sending' = [ws_sending EXCEPT ![s] = Some(PongMessage(data))]
    /\ ws_state' = [ws_state EXCEPT ![s] = "sending"]
    /\ UNCHANGED <<ipc_vars, command_rx, poller_held, store_vars, queue_vars, sent>>
    /\ UNCHANGED <<not_launcher, window>>

\* command_rx.recv() won the select: the command leaves the channel and its
\* tabSwitchRequested event is given to send
WsCommandRx(s) ==
    /\ LauncherRuns
    /\ ws_state[s] = "active"
    /\ command_rx[s] # <<>>
    /\ command_rx' = [command_rx EXCEPT ![s] = Tail(@)]
    /\ ws_sending' = [ws_sending EXCEPT ![s] =
                         Some(event("tabSwitchRequested",
                                    [tab_id |-> Head(command_rx[s])[1],
                                     window_id |-> Head(command_rx[s])[2]]))]
    /\ ws_state' = [ws_state EXCEPT ![s] = "sending"]
    /\ UNCHANGED <<ipc_vars, poller_held, store_vars, queue_vars, sent>>
    /\ UNCHANGED <<not_launcher, window>>

\* ws_sender.send(..).await of the select loop returned: Ok goes on with the
\* loop, Err breaks and handle_connection drops the receiver of the channel
WsSent(s, ok) ==
    /\ LauncherRuns
    /\ ws_state[s] = "sending"
    /\ ws_sending' = [ws_sending EXCEPT ![s] = None]
    /\ IF ok
          THEN /\ ws_state' = [ws_state EXCEPT ![s] = "active"]
               /\ sent' = IF /\ ws_sending[s].value.type = "event"
                             /\ ws_sending[s].value.event = "tabSwitchRequested"
                          THEN sent + 1 ELSE sent
               /\ UNCHANGED command_rx
          ELSE /\ ws_state' = [ws_state EXCEPT ![s] = "closed"]
               /\ command_rx' = [command_rx EXCEPT ![s] = <<>>]
               /\ UNCHANGED sent
    /\ UNCHANGED <<ipc_vars, poller_held, store_vars, queue_vars>>
    /\ UNCHANGED <<not_launcher, window>>

\* a close frame, the end of the stream or a receive error: break
WsClose(s) ==
    /\ LauncherRuns
    /\ ws_state[s] = "active"
    /\ ws_state' = [ws_state EXCEPT ![s] = "closed"]
    /\ command_rx' = [command_rx EXCEPT ![s] = <<>>]
    /\ UNCHANGED <<ipc_vars, poller_held, ws_sending, store_vars, queue_vars, sent>>
    /\ UNCHANGED <<not_launcher, window>>

\* the connection the listener accepted
LauncherPeers == {1}

WsSession(s) ==
    \/ WsHandshakeFail(s)
    \/ WsAccept(s)
    \/ (\E ok \in BOOLEAN : WsGreeted(s, ok))
    \/ PollerTick(s)
    \/ PollerSend(s)
    \/ (\E req \in WsRequests, now \in Timestamps : WsRequest(s, req, now))
    \/ (\E data \in PingPayloads : WsPing(s, data))
    \/ WsCommandRx(s)
    \/ (\E ok \in BOOLEAN : WsSent(s, ok))
    \/ WsClose(s)

\* the launcher as main builds it: the UI on the main thread and
\* run_ipc_server on the thread main spawns, over one TabManager; main
\* creates no WebSocketServer
Next ==
    \/ (\E p \in SwitchTargets : UiQueueCommand(p))
    \/ UiEscape \/ UiExit
    \/ IpcServer

Spec == Init /\ [][Next]_vars

\* ======================================================================
\* Both transports over one TabManager (SpecShared)
\* ======================================================================
\* WebSocketServer::new takes the Arc<TabManager> it serves, and start hands
\* a clone of it to every connection: a process that gives it the
\* TabManager of the UI and of run_ipc_server has the sessions and their
\* pollers work on the snapshot and the queue of the pipe server
NextShared ==
    \/ (\E p \in SwitchTargets : UiQueueCommand(p))
    \/ UiEscape \/ UiExit
    \/ IpcServer
    \/ (\E s \in LauncherPeers : WsSession(s))

SpecShared == Init /\ [][NextShared]_vars

\* ======================================================================
\* The pipe server task next to the UI, scheduled fairly (SpecIpcFair)
\* ======================================================================

\* the runtime keeps scheduling the task while the process runs: the 5 s
\* sleep ends and create_ipc_server returns, with Ok or with Err; a window
\* told to close does close. Whether a creation succeeds, and whether a
\* client connects, writes or hangs up, is left to the other processes
SpecIpcFair ==
    /\ Init /\ [][Next]_vars
    /\ WF_vars(IpcSleepDone)
    /\ WF_vars(IpcCreateOk \/ IpcCreateFail)
    /\ WF_vars(UiExit)

\* ======================================================================
\* A TabManager used from one thread of control (SpecTabManager)
\* ======================================================================
\* commands the caller queues
TmTargets == SwitchTargets \cup {<<9, 4>>}

\* tab_manager.queue_command(c)
TmQueueCommand(c) ==
    /\ Len(tm_log) < MaxTmCalls
    /\ command_queue' = queue_command(command_queue, c)
    /\ pushed' = Append(pushed, c)
    /\ tm_log' = Append(tm_log, [op |-> "queue_command", arg |-> c])
    /\ UNCHANGED <<ipc_vars, ws_vars, ws_step, ws_order, lk_vars, store_vars, popped, sent, nh_vars, fr_vars, rd_vars, ex_pipe, window, br_vars>>

\* tab_manager.pop_command()
TmPopCommand ==
    /\ Len(tm_log) < MaxTmCalls
    /\ LET r == pop_command(command_queue) IN
       /\ command_queue' = r.queue
       /\ popped' = IF r.result # None THEN Append(popped, r.result.value) ELSE popped
       /\ tm_log' = Append(tm_log, [op |-> "pop_command", result |-> r.result])
    /\ UNCHANGED <<ipc_vars, ws_vars, ws_step, ws_order, lk_vars, store_vars, pushed, sent, nh_vars, fr_vars, rd_vars, ex_pipe, window, br_vars>>

NextTabManager ==
    \/ (\E p \in TmTargets : TmQueueCommand(SwitchToTab(p[1], p[2])))
    \/ TmPopCommand

SpecTabManager == Init /\ [][NextTabManager]_vars

\* ======================================================================
\* The bridge's pipe client: communicate_with_launcher (SpecConnect)
\* ======================================================================
\* for _ in 0..10
MaxConnectAttempts == 10
\* Duration::from_millis(100)
ConnectDelayMs == 100

\* messages the bridge hands to communicate_with_launcher
BridgeMessages ==
    {GetTabsMsg, SwitchToTabMsg(5, 2), TabListMsg(<<TabA>>),
     TabSwitchResultMsg(TRUE, None),
     TabSwitchResultMsg(FALSE, Some("Tab switch failed"))}

\* messages the launcher writes back
ServerMessages ==
    {TabListMsg(<<>>), TabListMsg(<<TabA>>), ChromeCommandMsg(SwitchToTab(5, 2)),
     TabSwitchResultMsg(TRUE, None)}

\* the retry loop that never gives up
attempts_left_always(n) == TRUE

\* for _ in 0..10: another iteration of the retry loop is due
attempts_left(n) == n < MaxConnectAttempts

\* communicate_with_launcher(message) is entered: connect_to_ipc_server starts
NhCommunicate(m) ==
    /\ nh_pc = "idle"
    /\ nh_pc' = "open"
    /\ nh_message' = m
    /\ nh_result' = NoResult
    /\ conn_attempts' = 0
    /\ conn_slept_ms' = 0
    /\ UNCHANGED <<launcher_vars, ws_step, ws_order, tm_log, lk_vars, fr_vars, rd_vars, ex_pipe, window, br_vars>>

\* ClientOptions::new().open(PIPE_NAME) returned Ok: return Ok(client)
ConnOpenOk ==
    /\ nh_pc = "open"
    /\ attempts_left(conn_attempts)
    /\ conn_attempts' = conn_attempts + 1
    /\ nh_pc' = "send"
    /\ UNCHANGED <<launcher_vars, ws_step, ws_order, tm_log, lk_vars, fr_vars, rd_vars, ex_pipe, window, br_vars, nh_message, nh_result, conn_slept_ms>>

\* open returned Err: sleep 100 ms
ConnOpenFail ==
    /\ nh_pc = "open"
    /\ attempts_left(conn_attempts)
    /\ conn_attempts' = conn_attempts + 1
    /\ nh_pc' = "sleep"
    /\ UNCHANGED <<launcher_vars, ws_step, ws_order, tm_log, lk_vars, fr_vars, rd_vars, ex_pipe, window, br_vars, nh_message, nh_result, conn_slept_ms>>

\* the 100 ms sleep is over: next iteration, or the loop is exhausted and
\* connect_to_ipc_server returns ConnectionRefused, which
\* communicate_with_launcher hands on
ConnSleepDone ==
    /\ nh_pc = "sleep"
    /\ conn_slept_ms' = conn_slept_ms + ConnectDelayMs
    /\ IF attempts_left(conn_attempts)
          THEN nh_pc' = "open" /\ UNCHANGED nh_result
          ELSE nh_pc' = "idle" /\ nh_result' = Err("ConnectionRefused")
    /\ UNCHANGED <<launcher_vars, ws_step, ws_order, tm_log, lk_vars, fr_vars, rd_vars, ex_pipe, window, br_vars, nh_message, conn_attempts>>

\* send_message and flush returned Ok
NhSendOk ==
    /\ nh_pc = "send"
    /\ nh_pc' = "recv"
    /\ UNCHANGED <<launcher_vars, ws_step, ws_order, tm_log, lk_vars, fr_vars, rd_vars, ex_pipe, window, br_vars, nh_message, nh_result,
                   conn_attempts, conn_slept_ms>>

\* send_message or flush returned Err: returned with `?`
NhSendFail ==
    /\ nh_pc = "send"
    /\ nh_pc' = "idle"
    /\ nh_result' = Err("Io")
    /\ UNCHANGED <<launcher_vars, ws_step, ws_order, tm_log, lk_vars, fr_vars, rd_vars, ex_pipe, window, br_vars, nh_message, conn_attempts, conn_slept_ms>>

\* read_message returned Ok(response)
NhRecvOk(r) ==
    /\ nh_pc = "recv"
    /\ nh_pc' = "idle"
    /\ nh_result' = Ok(r)
    /\ UNCHANGED <<launcher_vars, ws_step, ws_order, tm_log, lk_vars, fr_vars, rd_vars, ex_pipe, window, br_vars, nh_message, conn_attempts, conn_slept_ms>>

\* read_message returned Err
NhRecvFail ==
    /\ nh_pc = "recv"
    /\ nh_pc' = "idle"
    /\ nh_result' = Err("Io")
    /\ UNCHANGED <<launcher_vars, ws_step, ws_order, tm_log, lk_vars, fr_vars, rd_vars, ex_pipe, window, br_vars, nh_message, conn_attempts, conn_slept_ms>>

NextConnect ==
    \/ (\E m \in BridgeMessages : NhCommunicate(m))
    \/ ConnOpenOk \/ ConnOpenFail \/ ConnSleepDone
    \/ NhSendOk \/ NhSendFail
    \/ (\E r \in ServerMessages : NhRecvOk(r))
    \/ NhRecvFail

\* the runtime keeps running the connect loop: an open attempt returns and a
\* sleep ends
SpecConnect ==
    /\ Init /\ [][NextConnect]_vars
    /\ WF_vars(ConnOpenOk \/ ConnOpenFail)
    /\ WF_vars(ConnSleepDone)

\* ======================================================================
\* Framing: send_message / read_message over one byte stream (SpecFraming)
\* ======================================================================
\* a tab whose title needs JSON escaping
TabQ == [id |-> 3, window_id |-> 10, title |-> "a\"b\\c", url |-> "http://b",
         fav_icon_url |-> "", active |-> FALSE, index |-> 2]

\* IpcMessage values written to the stream: every variant, both signs of
\* i32, both cases of Option<String>, an empty and a two-element Vec<TabInfo>
FrMessages ==
    {GetTabsMsg,
     SwitchToTabMsg(5, 2),
     SwitchToTabMsg(-2147483647 - 1, 2147483647),
     TabListMsg(<<>>),
     TabListMsg(<<TabA>>),
     TabListMsg(<<TabB, TabQ>>),
     TabSwitchResultMsg(TRUE, None),
     TabSwitchResultMsg(FALSE, Some("Tab switch failed")),
     ChromeCommandMsg(SwitchToTab(7, 3))}

\* number of send_message calls made on the stream
MaxFrames == 2

\* bytes the stream can hold between the writer and the reader: less than
\* any envelope, less than most bodies, more than everything written
PipeCapacities == {4, 16, 65536}

\* ------------------------------------------------------- the envelope
\* u32::to_le_bytes of (n as u32)
to_le_bytes(n) ==
    <<n % 256, (n \div 256) % 256, (n \div 65536) % 256, (n \div 16777216) % 256>>

\* u32::from_le_bytes
from_le_bytes(b) == b[1] + 256 * b[2] + 65536 * b[3] + 16777216 * b[4]

\* send_message advertising the prefix as part of the length
send_message_counts_prefix(m) ==
    LET json_bytes == to_string(m)
        length == Len(json_bytes) + 4
    IN  <<to_le_bytes(length), json_bytes>>

\* send_message: the buffers it gives to write_all, in order: the length of
\* the JSON text, then the text
send_message(m) ==
    LET json_bytes == to_string(m)
        length == Len(json_bytes)
    IN  <<to_le_bytes(length), json_bytes>>

\* read_message once both read_exact have returned: the parsed message, or
\* the parse error as InvalidData
read_message(message_bytes) ==
    Only({IF parsed.kind = "Ok" THEN parsed ELSE Err("InvalidData")
          : parsed \in {from_slice(message_bytes)}})

\* the smaller of two numbers
Min(a, b) == IF a < b THEN a ELSE b

\* the buffers left after k bytes of the first one were written
written_from(bufs, k) ==
    IF k = Len(bufs[1]) THEN Tail(bufs)
    ELSE <<SubSeq(bufs[1], k + 1, Len(bufs[1]))>> \o Tail(bufs)

\* the stream between the writer and the reader is created
FrOpen(c) ==
    /\ fr_capacity = 0
    /\ fr_capacity' = c
    /\ UNCHANGED <<fr_stream, fr_sent, fr_calls, fr_writer, fr_reader, fr_pos, fr_reads, fr_step>>
    /\ UNCHANGED <<launcher_vars, ws_step, ws_order, tm_log, lk_vars, nh_vars, rd_vars, ex_pipe, window, br_vars>>

\* send_message(stream, m) is called: the message is serialized and the
\* first write_all begins
FrSend(m) ==
    /\ fr_capacity > 0
    /\ fr_writer.pc = "idle"
    /\ fr_calls < MaxFrames
    /\ fr_calls' = fr_calls + 1
    /\ fr_sent' = Append(fr_sent, m)
    /\ fr_writer' = WriterAt("write", send_message(m))
    /\ UNCHANGED <<fr_capacity, fr_stream, fr_reader, fr_pos, fr_reads, fr_step>>
    /\ UNCHANGED <<launcher_vars, ws_step, ws_order, tm_log, lk_vars, nh_vars, rd_vars, ex_pipe, window, br_vars>>

\* write_all goes on: the stream takes as many bytes of the buffer as it has
\* room for; when the buffer is written, write_all returns and the next
\* write_all begins, or flush after the last
FrWrite ==
    /\ fr_writer.pc = "write"
    /\ \E k \in {Min(Len(fr_writer.bufs[1]), fr_capacity - Len(fr_stream))} :
          /\ k > 0
          /\ fr_stream' = fr_stream \o SubSeq(fr_writer.bufs[1], 1, k)
          /\ fr_writer' = IF written_from(fr_writer.bufs, k) = <<>>
                          THEN WriterAt("flush", <<>>)
                          ELSE WriterAt("write", written_from(fr_writer.bufs, k))
    /\ UNCHANGED <<fr_capacity, fr_sent, fr_calls, fr_reader, fr_pos, fr_reads, fr_step>>
    /\ UNCHANGED <<launcher_vars, ws_step, ws_order, tm_log, lk_vars, nh_vars, rd_vars, ex_pipe, window, br_vars>>

\* flush returns Ok, and send_message with it
FrFlush ==
    /\ fr_writer.pc = "flush"
    /\ fr_writer' = WriterIdle
    /\ UNCHANGED <<fr_capacity, fr_stream, fr_sent, fr_calls, fr_reader, fr_pos, fr_reads, fr_step>>
    /\ UNCHANGED <<launcher_vars, ws_step, ws_order, tm_log, lk_vars, nh_vars, rd_vars, ex_pipe, window, br_vars>>

\* read_exact(&mut length_bytes) goes on: it takes the bytes the stream
\* holds, up to the four it wants; with the fourth the length is decoded and
\* read_exact(&mut message_bytes) begins
FrReadLength ==
    /\ fr_reader.pc = "length"
    /\ fr_stream # <<>>
    /\ \E k \in {Min(fr_reader.want, Len(fr_stream))} :
          /\ fr_stream' = SubSeq(fr_stream, k + 1, Len(fr_stream))
          /\ fr_pos' = fr_pos + k
          /\ fr_reader' =
                IF k < fr_reader.want
                THEN ReaderAt("length", fr_reader.buf \o SubSeq(fr_stream, 1, k),
                              fr_reader.want - k)
                ELSE ReaderAt("body", <<>>,
                              from_le_bytes(fr_reader.buf \o SubSeq(fr_stream, 1, k)))
    /\ UNCHANGED <<fr_capacity, fr_sent, fr_calls, fr_writer, fr_reads, fr_step>>
    /\ UNCHANGED <<launcher_vars, ws_step, ws_order, tm_log, lk_vars, nh_vars, rd_vars, ex_pipe, window, br_vars>>

\* read_exact(&mut message_bytes) goes on: it takes the bytes the stream
\* holds, up to those it wants; with the last one the body is parsed and
\* read_message returns, and the reader calls it again
FrReadBody ==
    /\ fr_reader.pc = "body"
    /\ fr_reader.want = 0 \/ fr_stream # <<>>
    /\ \E k \in {Min(fr_reader.want, Len(fr_stream))} :
          /\ fr_stream' = SubSeq(fr_stream, k + 1, Len(fr_stream))
          /\ IF k < fr_reader.want
                THEN /\ fr_reader' = ReaderAt("body", fr_reader.buf \o SubSeq(fr_stream, 1, k),
                                              fr_reader.want - k)
                     /\ fr_pos' = fr_pos + k
                     /\ UNCHANGED <<fr_sent, fr_reads, fr_step>>
                ELSE /\ fr_reader' = ReaderAt("length", <<>>, 4)
                     /\ fr_pos' = 0
                     /\ fr_reads' = fr_reads + 1
                     /\ fr_step' = FrStep(read_message(fr_reader.buf \o SubSeq(fr_stream, 1, k)),
                                          IF fr_sent = <<>> THEN None ELSE Some(Head(fr_sent)),
                                          fr_pos + k)
                     /\ fr_sent' = IF fr_sent = <<>> THEN <<>> ELSE Tail(fr_sent)
    /\ UNCHANGED <<fr_capacity, fr_calls, fr_writer>>
    /\ UNCHANGED <<launcher_vars, ws_step, ws_order, tm_log, lk_vars, nh_vars, rd_vars, ex_pipe, window, br_vars>>

NextFraming ==
    \/ (\E c \in PipeCapacities : FrOpen(c))
    \/ (\E m \in FrMessages : FrSend(m))
    \/ FrWrite
    \/ FrFlush
    \/ FrReadLength
    \/ FrReadBody

SpecFraming == Init /\ [][NextFraming]_vars

\* ======================================================================
\* read_message on a pipe connection, step by step (SpecPipeRead)
\* ======================================================================
\* 1024 * 1024, the largest body length of an envelope
MaxMessageLength == 1048576

\* number of read_message calls made on the connection
MaxPipeReads == 2

\* lengths the peer advertises
FrameLengths == {0, 1, 9, 48, MaxMessageLength, MaxMessageLength + 1}

\* number of bytes of a body
BodyLen(body) == Len(body.text) + body.pad

\* JSON texts the peer pads to the advertised length: two messages and an
\* opening brace on its own
BodyTexts == {to_string(GetTabsMsg), to_string(TabSwitchResultMsg(TRUE, None)), <<123>>}

\* the bodies of n bytes the peer writes after the length
Bodies(n) ==
    IF n = 0 THEN {NoBody}
    ELSE {Body(t, n - Len(t), 0) : t \in {x \in BodyTexts : Len(x) <= n}}

\* every body the peer writes
AllBodies == UNION {Bodies(n) : n \in FrameLengths}

\* serde_json::from_slice on a body: the whitespace after the text is skipped
parse_body(body) == from_slice(body.text)

\* the length read_message has decoded
rd_length == from_le_bytes(rd_prefix)

\* read_exact(&mut length_bytes) returned Ok
RdLengthOk(n) ==
    /\ rd_pc = "length"
    /\ Len(rd_results) < MaxPipeReads
    /\ rd_prefix' = to_le_bytes(n)
    /\ rd_body' = NoBody
    /\ rd_pc' = "body"
    /\ UNCHANGED rd_results
    /\ UNCHANGED <<launcher_vars, ws_step, ws_order, tm_log, lk_vars, nh_vars, fr_vars, br_vars, ex_pipe, window>>

\* read_exact(&mut length_bytes) returned Err: the stream ended
RdLengthEof ==
    /\ rd_pc = "length"
    /\ Len(rd_results) < MaxPipeReads
    /\ rd_results' = Append(rd_results, Err("UnexpectedEof"))
    /\ rd_pc' = "closed"
    /\ UNCHANGED <<rd_prefix, rd_body>>
    /\ UNCHANGED <<launcher_vars, ws_step, ws_order, tm_log, lk_vars, nh_vars, fr_vars, br_vars, ex_pipe, window>>

\* vec![0u8; message_length] and read_exact(&mut message_bytes) returned Ok
RdBodyOk(body) ==
    /\ rd_pc = "body"
    /\ body \in Bodies(rd_length)
    /\ rd_body' = Body(body.text, body.pad, BodyLen(body))
    /\ rd_pc' = "parse"
    /\ UNCHANGED <<rd_prefix, rd_results>>
    /\ UNCHANGED <<launcher_vars, ws_step, ws_order, tm_log, lk_vars, nh_vars, fr_vars, br_vars, ex_pipe, window>>

\* read_exact(&mut message_bytes) returned Err: the stream ended after k
\* bytes of the body
RdBodyEof(body, k) ==
    /\ rd_pc = "body"
    /\ body \in Bodies(rd_length)
    /\ k < BodyLen(body)
    /\ rd_body' = Body(body.text, body.pad, k)
    /\ rd_results' = Append(rd_results, Err("UnexpectedEof"))
    /\ rd_pc' = "closed"
    /\ UNCHANGED rd_prefix
    /\ UNCHANGED <<launcher_vars, ws_step, ws_order, tm_log, lk_vars, nh_vars, fr_vars, br_vars, ex_pipe, window>>

\* serde_json::from_slice(&message_bytes).map_err(InvalidData); on Ok the
\* caller reads the next message, on Err it leaves the connection
RdParse ==
    /\ rd_pc = "parse"
    /\ \E parsed \in {parse_body(rd_body)} :
          IF parsed.kind = "Ok"
          THEN rd_results' = Append(rd_results, parsed) /\ rd_pc' = "length"
          ELSE rd_results' = Append(rd_results, Err("InvalidData")) /\ rd_pc' = "closed"
    /\ UNCHANGED <<rd_prefix, rd_body>>
    /\ UNCHANGED <<launcher_vars, ws_step, ws_order, tm_log, lk_vars, nh_vars, fr_vars, br_vars, ex_pipe, window>>

NextPipeRead ==
    \/ (\E n \in FrameLengths : RdLengthOk(n))
    \/ RdLengthEof
    \/ (\E body \in AllBodies : RdBodyOk(body))
    \/ (\E body \in AllBodies, k \in {0, 1} : RdBodyEof(body, k))
    \/ RdParse

SpecPipeRead == Init /\ [][NextPipeRead]_vars

\* ======================================================================
\* The bridge: the stdin loop of native_host main (SpecBridge)
\* ======================================================================
\* number of messages the browser writes to the bridge's stdin
MaxStdinMessages == 2

\* native_host::TabInfo (windowId, favIconUrl) built from an ipc::TabInfo
ToNativeTab(tab) ==
    [id |-> tab.id, windowId |-> tab.window_id, title |-> tab.title,
     url |-> tab.url, favIconUrl |-> tab.fav_icon_url,
     active |-> tab.active, index |-> tab.index]

\* ipc::TabInfo built from a native_host::TabInfo, by way of ChromeTab
FromNativeTab(tab) ==
    [id |-> tab.id, window_id |-> tab.windowId, title |-> tab.title,
     url |-> tab.url, fav_icon_url |-> tab.favIconUrl,
     active |-> tab.active, index |-> tab.index]

\* native_host::Command
CommandGetTabs == [command |-> "getTabs"]
CommandSwitchToTab(t, w) == [command |-> "switchToTab", tabId |-> t, windowId |-> w]

\* native_host::Response; the String of an error is the sequence of the
\* pieces it is formatted from
ResponseTabList(ts) == [type |-> "tabList", tabs |-> ts]
ResponseSwitchResult(ok, tab, err) ==
    [type |-> "switchResult", success |-> ok, tabId |-> tab, error |-> err]

\* the two ids formatted in the other order
SwitchTabTextSwapped(t, w) == <<"SWITCH_TAB:", w, ":", t>>

\* format!("SWITCH_TAB:{}:{}", tab_id, window_id)
SwitchTabText(t, w) == <<"SWITCH_TAB:", t, ":", w>>

\* ------------------------------------- JSON texts the browser writes
\* native_host::TabInfo as JSON
json_native_tab(t) ==
    <<123>> \o json_key("id") \o json_i32(t.id)
    \o <<44>> \o json_key("windowId") \o json_i32(t.windowId)
    \o <<44>> \o json_key("title") \o json_string(t.title)
    \o <<44>> \o json_key("url") \o json_string(t.url)
    \o <<44>> \o json_key("favIconUrl") \o json_string(t.favIconUrl)
    \o <<44>> \o json_key("active") \o json_bool(t.active)
    \o <<44>> \o json_key("index") \o json_i32(t.index)
    \o <<125>>

RECURSIVE json_native_tabs(_)
json_native_tabs(ts) ==
    IF ts = <<>> THEN <<>>
    ELSE IF Len(ts) = 1 THEN json_native_tab(ts[1])
    ELSE json_native_tab(Head(ts)) \o <<44>> \o json_native_tabs(Tail(ts))

\* {"command":"getTabs"}
StdinGetTabs == <<123>> \o json_key("command") \o json_string("getTabs") \o <<125>>

\* {"command":"switchToTab","tabId":t,"windowId":w}
StdinSwitchToTab(t, w) ==
    <<123>> \o json_key("command") \o json_string("switchToTab")
    \o <<44>> \o json_key("tabId") \o json_i32(t)
    \o <<44>> \o json_key("windowId") \o json_i32(w) \o <<125>>

\* {"type":"tabList","tabs":[...]}
StdinTabList(ts) ==
    <<123>> \o json_key("type") \o json_string("tabList")
    \o <<44>> \o json_key("tabs") \o <<91>> \o json_native_tabs(ts) \o <<93, 125>>

\* {"type":"tabSwitchAck","success":ok,"tabId":t,"windowId":w}
StdinTabSwitchAck(ok, t, w) ==
    <<123>> \o json_key("type") \o json_string("tabSwitchAck")
    \o <<44>> \o json_key("success") \o json_bool(ok)
    \o <<44>> \o json_key("tabId") \o json_i32(t)
    \o <<44>> \o json_key("windowId") \o json_i32(w) \o <<125>>

\* {"type":"tabSwitchAck"}: an acknowledgement without its success member
StdinAckNoSuccess ==
    <<123>> \o json_key("type") \o json_string("tabSwitchAck") \o <<125>>

\* {"command":"getTabs","type":"tabList","tabs":[]}: a command that also
\* has the members of a pushed tab list
StdinCommandWithType ==
    <<123>> \o json_key("command") \o json_string("getTabs")
    \o <<44>> \o json_key("type") \o json_string("tabList")
    \o <<44>> \o json_key("tabs") \o <<91, 93, 125>>

\* {"id":1}: valid JSON of no known shape
StdinUnknown == <<123>> \o json_key("id") \o json_i32(1) \o <<125>>

\* {: not JSON
StdinNotJson == <<123>>

\* the message bodies the browser writes
StdinTexts ==
    {StdinGetTabs, StdinSwitchToTab(5, 2), StdinTabList(<<ToNativeTab(TabA)>>),
     StdinTabSwitchAck(TRUE, 5, 2), StdinTabSwitchAck(FALSE, 5, 2),
     StdinAckNoSuccess, StdinCommandWithType, StdinUnknown, StdinNotJson}


\* serde_json::from_value::<Command>: tagged by the member "command"
de_command(v) ==
    LET tag == TagOf(v, "command")
        c == TagContent(v)
    IN  IF tag.t # "str" THEN DeFail
        ELSE IF tag.v = "getTabs"
             THEN (IF c.t = "obj" \/ c.v = <<>> THEN DeOk(CommandGetTabs) ELSE DeFail)
        ELSE IF tag.v = "switchToTab"
             THEN IF ~IsStruct(c, 2) THEN DeFail
                  ELSE LET t == de_i32(Member(c, "tabId", 1))
                           w == de_i32(Member(c, "windowId", 2))
                       IN  IF t.ok /\ w.ok
                           THEN DeOk(CommandSwitchToTab(t.value, w.value))
                           ELSE DeFail
        ELSE DeFail

\* native_host::TabInfo
de_native_tab(v) ==
    IF ~IsStruct(v, 7) THEN DeFail
    ELSE LET id == de_i32(Member(v, "id", 1))
             windowId == de_i32(Member(v, "windowId", 2))
             title == de_string(Member(v, "title", 3))
             url == de_string(Member(v, "url", 4))
             favIconUrl == de_string(Member(v, "favIconUrl", 5))
             active == de_bool(Member(v, "active", 6))
             index == de_i32(Member(v, "index", 7))
         IN  IF id.ok /\ windowId.ok /\ title.ok /\ url.ok
                /\ favIconUrl.ok /\ active.ok /\ index.ok
             THEN DeOk([id |-> id.value, windowId |-> windowId.value,
                        title |-> title.value, url |-> url.value,
                        favIconUrl |-> favIconUrl.value,
                        active |-> active.value, index |-> index.value])
             ELSE DeFail

\* Vec<native_host::TabInfo>
de_native_tabs(v) ==
    IF v.t # "arr" THEN DeFail
    ELSE IF \A i \in 1..Len(v.v) : de_native_tab(v.v[i]).ok
         THEN DeOk([i \in 1..Len(v.v) |-> de_native_tab(v.v[i]).value])
         ELSE DeFail

\* serde_json::from_value::<TabListResponse>: tagged by the member "type"
de_tab_list_response(v) ==
    LET tag == TagOf(v, "type")
        c == TagContent(v)
    IN  IF tag.t # "str" THEN DeFail
        ELSE IF tag.v = "tabList" /\ IsStruct(c, 1)
             THEN de_native_tabs(Member(c, "tabs", 1))
        ELSE DeFail

\* json_value.get("type").and_then(|v| v.as_str()) == Some("tabSwitchAck")
is_tab_switch_ack(v) ==
    /\ v.t = "obj"
    /\ Field(v, "type").t = "str"
    /\ Field(v, "type").v = "tabSwitchAck"

\* json_value.get("success").and_then(|v| v.as_bool())
ack_success(v) == de_bool(Field(v, "success"))

\* the IpcMessage handle_command gives to communicate_with_launcher
command_message(command) ==
    IF command.command = "getTabs" THEN GetTabsMsg
    ELSE SwitchToTabMsg(command.tabId, command.windowId)

\* handle_command answering every command with the switchToTab failure
handle_command_failing(command, result) ==
    ResponseSwitchResult(FALSE, None, Some(<<"Failed to communicate with launcher">>))

\* handle_command: the Response for a command, given what
\* communicate_with_launcher returned
handle_command(command, result) ==
    IF command.command = "getTabs"
    THEN IF result.kind = "Ok" /\ result.value.type = "TabList"
         THEN ResponseTabList([i \in 1..Len(result.value.tabs) |->
                                  ToNativeTab(result.value.tabs[i])])
         ELSE IF result.kind = "Ok" /\ result.value.type = "ChromeCommand"
         THEN ResponseSwitchResult(TRUE, Some(result.value.command.tab_id),
                  Some(SwitchTabText(result.value.command.tab_id,
                                     result.value.command.window_id)))
         ELSE ResponseTabList(<<>>)
    ELSE IF result.kind = "Ok" /\ result.value.type = "TabSwitchResult"
         THEN ResponseSwitchResult(result.value.success,
                  IF result.value.success THEN Some(command.tabId) ELSE None,
                  IF result.value.error = None THEN None
                  ELSE Some(<<result.value.error.value>>))
         ELSE ResponseSwitchResult(FALSE, None,
                  Some(<<"Failed to communicate with launcher">>))

\* the dispatch trying the pushed tab list before the command
bridge_dispatch_tabs_first(v, result) ==
    IF de_tab_list_response(v).ok
    THEN [sent |-> Some(TabListMsg([i \in 1..Len(de_tab_list_response(v).value) |->
                            FromNativeTab(de_tab_list_response(v).value[i])])),
          response |-> None]
    ELSE IF de_command(v).ok
    THEN [sent |-> Some(command_message(de_command(v).value)),
          response |-> Some(handle_command(de_command(v).value, result))]
    ELSE [sent |-> None, response |-> None]

\* one pass of the loop body on a parsed message: the message given to
\* communicate_with_launcher and the Response to write, if any
bridge_dispatch(v, result) ==
    IF de_command(v).ok
    THEN [sent |-> Some(command_message(de_command(v).value)),
          response |-> Some(handle_command(de_command(v).value, result))]
    ELSE IF de_tab_list_response(v).ok
    THEN [sent |-> Some(TabListMsg([i \in 1..Len(de_tab_list_response(v).value) |->
                            FromNativeTab(de_tab_list_response(v).value[i])])),
          response |-> None]
    ELSE IF is_tab_switch_ack(v) /\ ack_success(v).ok
    THEN [sent |-> Some(TabSwitchResultMsg(ack_success(v).value,
                            IF ack_success(v).value THEN None
                            ELSE Some("Tab switch failed"))),
          response |-> None]
    ELSE [sent |-> None, response |-> None]

\* messages the launcher writes back to the bridge
LauncherReplies == ServerMessages \cup {TabListMsg(<<TabB, TabA>>)}

\* what communicate_with_launcher can return
LauncherResults ==
    {Ok(r) : r \in LauncherReplies} \cup {Err("ConnectionRefused"), Err("Io")}

\* lengths the browser advertises
StdinLengths ==
    {0, MaxMessageLength, MaxMessageLength + 1} \cup {Len(t) : t \in StdinTexts}

\* texts the browser also writes followed by white space up to the cap
PaddedTexts == {StdinGetTabs, StdinNotJson}

\* the bodies of n bytes the browser writes after the length: a text of n
\* bytes, or a shorter one followed by white space
StdinBodies(n) ==
    IF n = 0 THEN {NoBody}
    ELSE {Body(t, n - Len(t), 0) :
            t \in {x \in StdinTexts :
                     \/ Len(x) = n
                     \/ n = MaxMessageLength /\ x \in PaddedTexts}}

\* every body the browser writes
AllStdinBodies == UNION {StdinBodies(n) : n \in StdinLengths}

\* the length the loop has decoded
br_length == from_le_bytes(br_prefix)

\* a length check that lets every length through
length_invalid_never(n) == FALSE

\* message_length == 0 || message_length > 1024 * 1024
length_invalid(n) == n = 0 \/ n > MaxMessageLength

\* Ok(())
OkUnit == Ok(<<>>)

\* stdin.lock().read_exact(&mut length_bytes) returned Ok, then the length
\* is validated: break, or go on to the body
BrLengthOk(n) ==
    /\ br_pc = "length"
    /\ br_reads < MaxStdinMessages
    /\ br_reads' = br_reads + 1
    /\ br_prefix' = to_le_bytes(n)
    /\ br_body' = NoBody
    /\ IF length_invalid(from_le_bytes(to_le_bytes(n)))
          THEN br_pc' = "exited" /\ br_exit' = OkUnit
          ELSE br_pc' = "body" /\ UNCHANGED br_exit
    /\ UNCHANGED <<br_written, br_sent, br_step>>
    /\ UNCHANGED <<launcher_vars, ws_step, ws_order, tm_log, lk_vars, nh_vars, fr_vars, rd_vars, ex_pipe, window>>

\* read_exact(&mut length_bytes) returned Err (end of stdin or another
\* error): break
BrLengthEof ==
    /\ br_pc = "length"
    /\ br_pc' = "exited"
    /\ br_exit' = OkUnit
    /\ UNCHANGED <<br_prefix, br_body, br_written, br_sent, br_reads, br_step>>
    /\ UNCHANGED <<launcher_vars, ws_step, ws_order, tm_log, lk_vars, nh_vars, fr_vars, rd_vars, ex_pipe, window>>

\* read_exact(&mut message_bytes) returned Ok
BrBodyOk(body) ==
    /\ br_pc = "body"
    /\ body \in StdinBodies(br_length)
    /\ br_body' = Body(body.text, body.pad, BodyLen(body))
    /\ br_pc' = "dispatch"
    /\ UNCHANGED <<br_prefix, br_written, br_sent, br_exit, br_reads, br_step>>
    /\ UNCHANGED <<launcher_vars, ws_step, ws_order, tm_log, lk_vars, nh_vars, fr_vars, rd_vars, ex_pipe, window>>

\* read_exact(&mut message_bytes) returned Err after k bytes: break
BrBodyEof(body, k) ==
    /\ br_pc = "body"
    /\ body \in StdinBodies(br_length)
    /\ k < BodyLen(body)
    /\ br_body' = Body(body.text, body.pad, k)
    /\ br_pc' = "exited"
    /\ br_exit' = OkUnit
    /\ UNCHANGED <<br_prefix, br_written, br_sent, br_reads, br_step>>
    /\ UNCHANGED <<launcher_vars, ws_step, ws_order, tm_log, lk_vars, nh_vars, fr_vars, rd_vars, ex_pipe, window>>

\* serde_json::from_slice::<serde_json::Value> of the texts the browser writes
ParsedStdin == [text \in StdinTexts |-> value_from_slice(text)]

\* bridge_dispatch of the texts that parse, for what communicate_with_launcher
\* returned (NoResult before it has)
DispatchedStdin ==
    [text \in {t \in StdinTexts : ParsedStdin[t].ok} |->
        [result \in LauncherResults \cup {NoResult} |->
            bridge_dispatch(ParsedStdin[text].value, result)]]

\* the loop body from the parse up to its first await: parse the JSON
\* (continue on an error) and dispatch on its shape; a Command, a pushed tab
\* list and an acknowledgement with a success member enter
\* communicate_with_launcher, any other shape is logged and the loop goes on
BrDispatch ==
    /\ br_pc = "dispatch"
    /\ nh_pc = "idle"
    /\ \E parsed \in {ParsedStdin[br_body.text]} :
          IF ~parsed.ok
          THEN /\ br_pc' = "length"
               /\ br_step' = BrStep(br_body.text, FALSE, NoResult, None, None, FALSE, "length")
               /\ UNCHANGED <<br_sent, nh_vars>>
          ELSE \E d \in {DispatchedStdin[br_body.text][NoResult]} :
                  IF d.sent = None
                  THEN /\ br_pc' = "length"
                       /\ br_step' = BrStep(br_body.text, TRUE, NoResult, None, None,
                                            FALSE, "length")
                       /\ UNCHANGED <<br_sent, nh_vars>>
                  ELSE /\ br_pc' = "call"
                       /\ br_sent' = Append(br_sent, d.sent.value)
                       /\ nh_pc' = "open"
                       /\ nh_message' = d.sent.value
                       /\ nh_result' = NoResult
                       /\ conn_attempts' = 0
                       /\ conn_slept_ms' = 0
                       /\ UNCHANGED br_step
    /\ UNCHANGED <<br_prefix, br_body, br_written, br_exit, br_reads>>
    /\ UNCHANGED <<launcher_vars, ws_step, ws_order, tm_log, lk_vars, fr_vars, rd_vars, ex_pipe, window>>

\* communicate_with_launcher can return result now: ConnectionRefused at the
\* end of the sleep after the last open attempt, the error of send_message
\* or flush, the error of read_message, or the reply read_message returned
communicate_returns(result) ==
    \/ nh_pc = "sleep" /\ ~attempts_left(conn_attempts) /\ result = Err("ConnectionRefused")
    \/ nh_pc = "send" /\ result = Err("Io")
    \/ nh_pc = "recv" /\ result = Err("Io")
    \/ nh_pc = "recv" /\ result.kind = "Ok" /\ result.value \in LauncherReplies

\* communicate_with_launcher returns result, and the loop body runs on from
\* there to its end without another await: a Command's Response is made from
\* the result and written to stdout (break on an error), the result of
\* forwarding a tab list or an acknowledgement is logged, and the loop goes on
BrReturn(result, write_ok) ==
    /\ br_pc = "call"
    /\ communicate_returns(result)
    /\ \E d \in {DispatchedStdin[br_body.text][result]} :
          /\ br_step' = BrStep(br_body.text, TRUE, result, d.sent, d.response,
                               d.response # None /\ write_ok,
                               IF d.response = None \/ write_ok
                               THEN "length" ELSE "exited")
          /\ IF d.response = None
                THEN br_pc' = "length" /\ UNCHANGED <<br_written, br_exit>>
             ELSE IF write_ok
                THEN /\ br_written' = Append(br_written, d.response.value)
                     /\ br_pc' = "length"
                     /\ UNCHANGED br_exit
             ELSE /\ br_pc' = "exited"
                  /\ br_exit' = OkUnit
                  /\ UNCHANGED br_written
    /\ nh_pc' = "idle"
    /\ nh_message' = NoMsg
    /\ nh_result' = NoResult
    /\ conn_attempts' = 0
    /\ conn_slept_ms' = 0
    /\ UNCHANGED <<br_prefix, br_body, br_sent, br_reads>>
    /\ UNCHANGED <<launcher_vars, ws_step, ws_order, tm_log, lk_vars, fr_vars, rd_vars, ex_pipe, window>>

NextBridge ==
    \/ (\E n \in StdinLengths : BrLengthOk(n))
    \/ BrLengthEof
    \/ (\E body \in AllStdinBodies : BrBodyOk(body))
    \/ (\E body \in AllStdinBodies, k \in {0, 1} : BrBodyEof(body, k))
    \/ BrDispatch
    \/ ConnOpenOk
    \/ ConnOpenFail
    \/ (attempts_left(conn_attempts) /\ ConnSleepDone)
    \/ NhSendOk
    \/ (\E result \in LauncherResults, write_ok \in BOOLEAN : BrReturn(result, write_ok))

SpecBridge == Init /\ [][NextBridge]_vars

\* ======================================================================
\* WebSocket sessions frame by frame (SpecWs)
\* ======================================================================
\* tungstenite::Message as ws_receiver.next() yields it; text is the UTF-8
\* text of a text frame
TextFrame(text) == [frame |-> "text", text |-> text]
BinaryFrame == [frame |-> "binary"]
PingFrame(data) == [frame |-> "ping", data |-> data]
PongFrame(data) == [frame |-> "pong", data |-> data]
CloseFrame == [frame |-> "close"]
RecvError == [frame |-> "error"]
StreamEnd == [frame |-> "end"]

\* texts that are a Response and an Event
InboundResponseText ==
    <<123>> \o json_key("type") \o json_string("response")
    \o <<44>> \o json_key("id") \o json_string("7")
    \o <<44>> \o json_key("result")
    \o <<123>> \o json_key("success") \o json_bool(TRUE) \o <<125, 125>>
InboundEventText ==
    <<123>> \o json_key("type") \o json_string("event")
    \o <<44>> \o json_key("event") \o json_string("tabsUpdated")
    \o <<44>> \o json_key("data") \o json_tabs_params(<<TabA>>) \o <<125>>

\* JSON texts that are no WebSocketMessage: a type that is no variant, no
\* type, a request without method, a request whose id is a number
UnknownTypeText ==
    <<123>> \o json_key("type") \o json_string("bogus")
    \o <<44>> \o json_key("id") \o json_string("3") \o <<125>>
NoTypeText ==
    <<123>> \o json_key("id") \o json_string("3")
    \o <<44>> \o json_key("method") \o json_string("getTabs") \o <<125>>
RequestNoMethodText ==
    <<123>> \o json_key("type") \o json_string("request")
    \o <<44>> \o json_key("id") \o json_string("3") \o <<125>>
RequestNumericIdText ==
    <<123>> \o json_key("type") \o json_string("request")
    \o <<44>> \o json_key("id") \o json_i32(3)
    \o <<44>> \o json_key("method") \o json_string("getTabs") \o <<125>>
UnknownShapeTexts ==
    {UnknownTypeText, NoTypeText, RequestNoMethodText, RequestNumericIdText}

\* a text that is not JSON: the request of getTabs cut before its last byte
NotJsonText ==
    SubSeq(json_request("1", "getTabs", <<>>), 1,
           Len(json_request("1", "getTabs", <<>>)) - 1)

\* the texts a browser sends
WsTexts ==
    WsRequestTexts \cup UnknownShapeTexts
    \cup {InboundResponseText, InboundEventText, NotJsonText}

\* the frames a browser sends
WsFrames ==
    {TextFrame(text) : text \in WsTexts}
    \cup {BinaryFrame, PingFrame(<<1>>), PongFrame(<<1>>),
          CloseFrame, RecvError, StreamEnd}

\* from_str of the texts a browser sends
ParsedText == [text \in WsTexts |-> from_str(text)]

\* one call of ws_sender.send that returned, and what it returned
Send(msg, ok) == [msg |-> msg, ok |-> ok]

\* accept_async returned Err: handle_connection returns
WxHandshakeFail(s) ==
    /\ ws_state[s] = "idle"
    /\ ws_state' = [ws_state EXCEPT ![s] = "failed"]
    /\ ws_step' = WsStep(s, "handshake", NoWsFrame, None, <<>>, None)
    /\ UNCHANGED <<ipc_vars, command_rx, poller_held, ws_sending,
                   store_vars, queue_vars, sent>>
    /\ UNCHANGED <<tm_log, ws_order, lk_vars, nh_vars, fr_vars, rd_vars, ex_pipe, window, br_vars>>

\* a handshake that goes on to the session loop without the initial event
WxAcceptSilent(s) ==
    /\ ws_state[s] = "idle"
    /\ ws_state' = [ws_state EXCEPT ![s] = "active"]
    /\ ws_step' = WsStep(s, "accept", NoWsFrame, None, <<>>, None)
    /\ UNCHANGED <<ipc_vars, command_rx, poller_held, ws_sending,
                   store_vars, queue_vars, sent>>
    /\ UNCHANGED <<tm_log, ws_order, lk_vars, nh_vars, fr_vars, rd_vars, ex_pipe, window, br_vars>>

\* handshake done: the tabsUpdated event with get_tabs() is given to send
WxAccept(s) ==
    /\ ws_state[s] = "idle"
    /\ ws_state' = [ws_state EXCEPT ![s] = "greeting"]
    /\ ws_sending' = [ws_sending EXCEPT ![s] =
                         Some(event("tabsUpdated", [tabs |-> get_tabs(tabs)]))]
    /\ ws_step' = WsStep(s, "accept", NoWsFrame, None,
                         <<event("tabsUpdated", [tabs |-> get_tabs(tabs)])>>, None)
    /\ UNCHANGED <<ipc_vars, command_rx, poller_held, store_vars, queue_vars, sent>>
    /\ UNCHANGED <<tm_log, ws_order, lk_vars, nh_vars, fr_vars, rd_vars, ex_pipe, window, br_vars>>

\* the send of the initial event returned, its result is dropped: the
\* channel and the poller are created and the select loop is entered
WxGreeted(s, ok) ==
    /\ ws_state[s] = "greeting"
    /\ ws_state' = [ws_state EXCEPT ![s] = "active"]
    /\ ws_sending' = [ws_sending EXCEPT ![s] = None]
    /\ ws_step' = WsStep(s, "greeted", NoWsFrame, None, <<>>,
                         Some(Send(ws_sending[s].value, ok)))
    /\ UNCHANGED <<ipc_vars, command_rx, poller_held, store_vars, queue_vars, sent>>
    /\ UNCHANGED <<tm_log, ws_order, lk_vars, nh_vars, fr_vars, rd_vars, ex_pipe, window, br_vars>>

\* a channel that hands over the newest item first
channel_send_front(rx, item) == <<item>> \o rx

\* command_tx_clone.send((tab_id, window_id)): the mpsc channel is a queue
channel_send(rx, item) == Append(rx, item)

\* one turn of the poller after its 50 ms sleep: pop_command, and a popped
\* command is held for the send into the channel
WxPollerTick(s) ==
    /\ poller_running(ws_state[s])
    /\ poller_held[s] = None
    /\ \E r \in {pop_command(command_queue)} :
          /\ command_queue' = r.queue
          /\ popped' = IF r.result # None THEN Append(popped, r.result.value)
                       ELSE popped
          /\ poller_held' = IF r.result # None
                               THEN [poller_held EXCEPT ![s] =
                                        Some(<<r.result.value.tab_id,
                                               r.result.value.window_id>>)]
                               ELSE poller_held
          /\ ws_step' = WsStep(s, "tick", NoWsFrame, r.result, <<>>, None)
          /\ ws_order' = IF r.result # None
                         THEN [ws_order EXCEPT ![s].popped = Append(@, r.result.value)]
                         ELSE ws_order
    /\ UNCHANGED <<ipc_vars, ws_state, command_rx, ws_sending, store_vars, pushed, sent>>
    /\ UNCHANGED <<tm_log, lk_vars, nh_vars, fr_vars, rd_vars, ex_pipe, window, br_vars>>

\* the poller's send into the channel returned: Ok once the channel had
\* room, Err when handle_connection has dropped the receiver; the result is
\* dropped
WxPollerSend(s) ==
    /\ poller_held[s] # None
    /\ poller_held' = [poller_held EXCEPT ![s] = None]
    /\ IF ws_state[s] = "closed"
          THEN UNCHANGED command_rx
          ELSE /\ Len(command_rx[s]) < ChannelCapacity
               /\ command_rx' = [command_rx EXCEPT ![s] =
                                    channel_send(@, poller_held[s].value)]
    /\ ws_step' = WsStep(s, "forward", NoWsFrame,
                         Some(SwitchToTab(poller_held[s].value[1],
                                          poller_held[s].value[2])), <<>>, None)
    /\ UNCHANGED <<ipc_vars, ws_state, ws_sending, store_vars, queue_vars, sent>>
    /\ UNCHANGED <<tm_log, ws_order, lk_vars, nh_vars, fr_vars, rd_vars, ex_pipe, window, br_vars>>

\* a break that leaves the session in its loop
WxBreakStays(s) ==
    /\ ws_state' = [ws_state EXCEPT ![s] = "active"]
    /\ UNCHANGED command_rx

\* the session loop is left: handle_connection returns and drops command_rx
WxBreak(s) ==
    /\ ws_state' = [ws_state EXCEPT ![s] = "closed"]
    /\ command_rx' = [command_rx EXCEPT ![s] = <<>>]

\* the message is given to ws_sender.send, which the loop awaits
WxSend(s, msg) ==
    /\ ws_sending' = [ws_sending EXCEPT ![s] = Some(msg)]
    /\ ws_state' = [ws_state EXCEPT ![s] = "sending"]

\* ws_receiver.next() won the select: the match on the frame, up to the send
\* of the arms that send
WxReceive(s, f, now) ==
    /\ ws_state[s] = "active"
    /\ \E parsed \in {IF f.frame = "text" THEN ParsedText[f.text] ELSE Err("frame")} :
        IF parsed.kind = "Ok" /\ parsed.value.type = "request"
        THEN \E h \in {handle_request(parsed.value.id, parsed.value.method,
                                      parsed.value.params, now, tabs, command_queue)} :
               /\ Len(h.queue) > Len(command_queue) => Len(pushed) < MaxCmds
               /\ tabs' = h.tabs
               /\ last_update' =
                      IF /\ parsed.value.method = "updateTabs"
                         /\ parsed.value.params # None
                         /\ ParseUpdateTabsParams(parsed.value.params.value) # None
                      THEN ParseUpdateTabsParams(parsed.value.params.value).value.tabs
                      ELSE last_update
               /\ command_queue' = h.queue
               /\ pushed' = IF Len(h.queue) > Len(command_queue)
                               THEN Append(pushed, h.queue[Len(h.queue)]) ELSE pushed
               /\ ws_step' = WsStep(s, "frame", f, None, <<h.response>>, None)
               /\ WxSend(s, h.response)
               /\ UNCHANGED command_rx
        ELSE IF f.frame = "ping"
        THEN /\ ws_step' = WsStep(s, "frame", f, None, <<PongMessage(f.data)>>, None)
             /\ WxSend(s, PongMessage(f.data))
             /\ UNCHANGED <<command_rx, store_vars, command_queue, pushed>>
        ELSE IF f.frame \in {"close", "error", "end"}
        THEN /\ ws_step' = WsStep(s, "frame", f, None, <<>>, None)
             /\ WxBreak(s)
             /\ UNCHANGED <<ws_sending, store_vars, command_queue, pushed>>
        ELSE /\ ws_step' = WsStep(s, "frame", f, None, <<>>, None)
             /\ UNCHANGED <<ws_state, command_rx, ws_sending,
                            store_vars, command_queue, pushed>>
    /\ UNCHANGED <<ipc_vars, poller_held, popped, sent>>
    /\ UNCHANGED <<tm_log, ws_order, lk_vars, nh_vars, fr_vars, rd_vars, ex_pipe, window, br_vars>>

\* command_rx.recv() won the select: the command leaves the channel and its
\* tabSwitchRequested event is given to send
WxCommandRx(s) ==
    /\ ws_state[s] = "active"
    /\ command_rx[s] # <<>>
    /\ command_rx' = [command_rx EXCEPT ![s] = Tail(@)]
    /\ \E ev \in {event("tabSwitchRequested",
                        [tab_id |-> Head(command_rx[s])[1],
                         window_id |-> Head(command_rx[s])[2]])} :
          /\ ws_step' = WsStep(s, "command", NoWsFrame, None, <<ev>>, None)
          /\ WxSend(s, ev)
    /\ UNCHANGED <<ipc_vars, poller_held, store_vars, queue_vars, sent>>
    /\ UNCHANGED <<tm_log, ws_order, lk_vars, nh_vars, fr_vars, rd_vars, ex_pipe, window, br_vars>>

\* the Event is a tabSwitchRequested
IsSwitchEvent(msg) == msg.type = "event" /\ msg.event = "tabSwitchRequested"

\* ws_sender.send(..).await of the select loop returned: Ok goes on with the
\* loop, Err breaks
WxSent(s, ok) ==
    /\ ws_state[s] = "sending"
    /\ ws_sending' = [ws_sending EXCEPT ![s] = None]
    /\ ws_step' = WsStep(s, "sent", NoWsFrame, None, <<>>,
                         Some(Send(ws_sending[s].value, ok)))
    /\ IF ok
       THEN /\ ws_state' = [ws_state EXCEPT ![s] = "active"]
            /\ UNCHANGED command_rx
            /\ IF IsSwitchEvent(ws_sending[s].value)
               THEN /\ sent' = sent + 1
                    /\ ws_order' = [ws_order EXCEPT ![s].emitted =
                           Append(@, SwitchToTab(ws_sending[s].value.data.tab_id,
                                                 ws_sending[s].value.data.window_id))]
               ELSE UNCHANGED <<sent, ws_order>>
       ELSE /\ WxBreak(s)
            /\ UNCHANGED <<sent, ws_order>>
    /\ UNCHANGED <<ipc_vars, poller_held, store_vars, queue_vars>>
    /\ UNCHANGED <<tm_log, lk_vars, nh_vars, fr_vars, rd_vars, ex_pipe, window, br_vars>>

WxSession(s, frames) ==
    \/ WxHandshakeFail(s)
    \/ WxAccept(s)
    \/ (\E ok \in BOOLEAN : WxGreeted(s, ok))
    \/ WxPollerTick(s)
    \/ WxPollerSend(s)
    \/ (\E f \in frames, now \in Timestamps : WxReceive(s, f, now))
    \/ WxCommandRx(s)
    \/ (\E ok \in BOOLEAN : WxSent(s, ok))

\* the connection the listener accepted and spawned handle_connection for
WsPeers == {1}

NextWs == \E s \in WsPeers : WxSession(s, WsFrames)

SpecWs == Init /\ [][NextWs]_vars

\* ======================================================================
\* Several WebSocket sessions next to each other (SpecWsPair)
\* ======================================================================
\* the frames each of the browsers sends
PairFrames ==
    {TextFrame(json_request("1", "updateTabs", json_tabs_params(<<TabB, TabA>>))),
     TextFrame(json_request("1", "switchToTab", json_switch_params(5, 2))),
     BinaryFrame, PingFrame(<<1>>), CloseFrame, RecvError, StreamEnd}

NextWsPair == \E s \in Sessions : WxSession(s, PairFrames)

SpecWsPair == Init /\ [][NextWsPair]_vars

\* ======================================================================
\* The TabManager shared between threads, lock by lock (SpecLocks)
\* ======================================================================
\* number of TabManager calls made by all threads together
MaxLockCalls == 3

\* a tab of a page with a Greek title, its last letter a capital sigma
TabS == [id |-> 4, window_id |-> 10, title |-> "ΟΣ", url |-> "http://b",
         fav_icon_url |-> "", active |-> FALSE, index |-> 2]

\* the lists update_tabs is called with
StoredLists == TabLists \cup {<<TabS, TabA>>}

\* queries typed into the search box
Queries == {"", "CHROME", "HTTP://A", "zz", "Σ"}

\* ------------------------------------------------- str::to_lowercase
\* the tables of core::unicode, for Unicode 17.0
\* the chars that have a lowercase form of one other char, in rows
\* <<first, last, step, offset>>: first, first + step, .. up to last lower to
\* themselves plus offset
LowercaseTable ==
    <<
    <<65,90,1,32>>, <<192,214,1,32>>, <<216,222,1,32>>, <<256,302,2,1>>, <<306,310,2,1>>,
    <<313,327,2,1>>, <<330,374,2,1>>, <<376,376,1,-121>>, <<377,381,2,1>>, <<385,385,1,210>>,
    <<386,388,2,1>>, <<390,390,1,206>>, <<391,391,1,1>>, <<393,394,1,205>>, <<395,395,1,1>>,
    <<398,398,1,79>>, <<399,399,1,202>>, <<400,400,1,203>>, <<401,401,1,1>>, <<403,403,1,205>>,
    <<404,404,1,207>>, <<406,406,1,211>>, <<407,407,1,209>>, <<408,408,1,1>>, <<412,412,1,211>>,
    <<413,413,1,213>>, <<415,415,1,214>>, <<416,420,2,1>>, <<422,422,1,218>>, <<423,423,1,1>>,
    <<425,425,1,218>>, <<428,428,1,1>>, <<430,430,1,218>>, <<431,431,1,1>>, <<433,434,1,217>>,
    <<435,437,2,1>>, <<439,439,1,219>>, <<440,440,1,1>>, <<444,444,1,1>>, <<452,452,1,2>>,
    <<453,453,1,1>>, <<455,455,1,2>>, <<456,456,1,1>>, <<458,458,1,2>>, <<459,475,2,1>>,
    <<478,494,2,1>>, <<497,497,1,2>>, <<498,500,2,1>>, <<502,502,1,-97>>, <<503,503,1,-56>>,
    <<504,542,2,1>>, <<544,544,1,-130>>, <<546,562,2,1>>, <<570,570,1,10795>>, <<571,571,1,1>>,
    <<573,573,1,-163>>, <<574,574,1,10792>>, <<577,577,1,1>>, <<579,579,1,-195>>, <<580,580,1,69>>,
    <<581,581,1,71>>, <<582,590,2,1>>, <<880,882,2,1>>, <<886,886,1,1>>, <<895,895,1,116>>,
    <<902,902,1,38>>, <<904,906,1,37>>, <<908,908,1,64>>, <<910,911,1,63>>, <<913,929,1,32>>,
    <<931,939,1,32>>, <<975,975,1,8>>, <<984,1006,2,1>>, <<1012,1012,1,-60>>, <<1015,1015,1,1>>,
    <<1017,1017,1,-7>>, <<1018,1018,1,1>>, <<1021,1023,1,-130>>, <<1024,1039,1,80>>, <<1040,1071,1,32>>,
    <<1120,1152,2,1>>, <<1162,1214,2,1>>, <<1216,1216,1,15>>, <<1217,1229,2,1>>, <<1232,1326,2,1>>,
    <<1329,1366,1,48>>, <<4256,4293,1,7264>>, <<4295,4295,1,7264>>, <<4301,4301,1,7264>>, <<5024,5103,1,38864>>,
    <<5104,5109,1,8>>, <<7305,7305,1,1>>, <<7312,7354,1,-3008>>, <<7357,7359,1,-3008>>, <<7680,7828,2,1>>,
    <<7838,7838,1,-7615>>, <<7840,7934,2,1>>, <<7944,7951,1,-8>>, <<7960,7965,1,-8>>, <<7976,7983,1,-8>>,
    <<7992,7999,1,-8>>, <<8008,8013,1,-8>>, <<8025,8031,2,-8>>, <<8040,8047,1,-8>>, <<8072,8079,1,-8>>,
    <<8088,8095,1,-8>>, <<8104,8111,1,-8>>, <<8120,8121,1,-8>>, <<8122,8123,1,-74>>, <<8124,8124,1,-9>>,
    <<8136,8139,1,-86>>, <<8140,8140,1,-9>>, <<8152,8153,1,-8>>, <<8154,8155,1,-100>>, <<8168,8169,1,-8>>,
    <<8170,8171,1,-112>>, <<8172,8172,1,-7>>, <<8184,8185,1,-128>>, <<8186,8187,1,-126>>, <<8188,8188,1,-9>>,
    <<8486,8486,1,-7517>>, <<8490,8490,1,-8383>>, <<8491,8491,1,-8262>>, <<8498,8498,1,28>>, <<8544,8559,1,16>>,
    <<8579,8579,1,1>>, <<9398,9423,1,26>>, <<11264,11311,1,48>>, <<11360,11360,1,1>>, <<11362,11362,1,-10743>>,
    <<11363,11363,1,-3814>>, <<11364,11364,1,-10727>>, <<11367,11371,2,1>>, <<11373,11373,1,-10780>>, <<11374,11374,1,-10749>>,
    <<11375,11375,1,-10783>>, <<11376,11376,1,-10782>>, <<11378,11378,1,1>>, <<11381,11381,1,1>>, <<11390,11391,1,-10815>>,
    <<11392,11490,2,1>>, <<11499,11501,2,1>>, <<11506,11506,1,1>>, <<42560,42604,2,1>>, <<42624,42650,2,1>>,
    <<42786,42798,2,1>>, <<42802,42862,2,1>>, <<42873,42875,2,1>>, <<42877,42877,1,-35332>>, <<42878,42886,2,1>>,
    <<42891,42891,1,1>>, <<42893,42893,1,-42280>>, <<42896,42898,2,1>>, <<42902,42920,2,1>>, <<42922,42922,1,-42308>>,
    <<42923,42923,1,-42319>>, <<42924,42924,1,-42315>>, <<42925,42925,1,-42305>>, <<42926,42926,1,-42308>>, <<42928,42928,1,-42258>>,
    <<42929,42929,1,-42282>>, <<42930,42930,1,-42261>>, <<42931,42931,1,928>>, <<42932,42946,2,1>>, <<42948,42948,1,-48>>,
    <<42949,42949,1,-42307>>, <<42950,42950,1,-35384>>, <<42951,42953,2,1>>, <<42955,42955,1,-42343>>, <<42956,42970,2,1>>,
    <<42972,42972,1,-42561>>, <<42997,42997,1,1>>, <<65313,65338,1,32>>, <<66560,66599,1,40>>, <<66736,66771,1,40>>,
    <<66928,66938,1,39>>, <<66940,66954,1,39>>, <<66956,66962,1,39>>, <<66964,66965,1,39>>, <<68736,68786,1,64>>,
    <<68944,68965,1,32>>, <<71840,71871,1,32>>, <<93760,93791,1,32>>, <<93856,93880,1,27>>, <<125184,125217,1,34>> >>

\* the property Case_Ignorable, in ranges <<first, last>>
CaseIgnorableRanges ==
    <<
    <<39,39>>, <<46,46>>, <<58,58>>, <<94,94>>, <<96,96>>, <<168,168>>, <<173,173>>,
    <<175,175>>, <<180,180>>, <<183,184>>, <<688,879>>, <<884,885>>, <<890,890>>, <<900,901>>,
    <<903,903>>, <<1155,1161>>, <<1369,1369>>, <<1375,1375>>, <<1425,1469>>, <<1471,1471>>, <<1473,1474>>,
    <<1476,1477>>, <<1479,1479>>, <<1524,1524>>, <<1536,1541>>, <<1552,1562>>, <<1564,1564>>, <<1600,1600>>,
    <<1611,1631>>, <<1648,1648>>, <<1750,1757>>, <<1759,1768>>, <<1770,1773>>, <<1807,1807>>, <<1809,1809>>,
    <<1840,1866>>, <<1958,1968>>, <<2027,2037>>, <<2042,2042>>, <<2045,2045>>, <<2070,2093>>, <<2137,2139>>,
    <<2184,2184>>, <<2192,2193>>, <<2199,2207>>, <<2249,2306>>, <<2362,2362>>, <<2364,2364>>, <<2369,2376>>,
    <<2381,2381>>, <<2385,2391>>, <<2402,2403>>, <<2417,2417>>, <<2433,2433>>, <<2492,2492>>, <<2497,2500>>,
    <<2509,2509>>, <<2530,2531>>, <<2558,2558>>, <<2561,2562>>, <<2620,2620>>, <<2625,2626>>, <<2631,2632>>,
    <<2635,2637>>, <<2641,2641>>, <<2672,2673>>, <<2677,2677>>, <<2689,2690>>, <<2748,2748>>, <<2753,2757>>,
    <<2759,2760>>, <<2765,2765>>, <<2786,2787>>, <<2810,2815>>, <<2817,2817>>, <<2876,2876>>, <<2879,2879>>,
    <<2881,2884>>, <<2893,2893>>, <<2901,2902>>, <<2914,2915>>, <<2946,2946>>, <<3008,3008>>, <<3021,3021>>,
    <<3072,3072>>, <<3076,3076>>, <<3132,3132>>, <<3134,3136>>, <<3142,3144>>, <<3146,3149>>, <<3157,3158>>,
    <<3170,3171>>, <<3201,3201>>, <<3260,3260>>, <<3263,3263>>, <<3270,3270>>, <<3276,3277>>, <<3298,3299>>,
    <<3328,3329>>, <<3387,3388>>, <<3393,3396>>, <<3405,3405>>, <<3426,3427>>, <<3457,3457>>, <<3530,3530>>,
    <<3538,3540>>, <<3542,3542>>, <<3633,3633>>, <<3636,3642>>, <<3654,3662>>, <<3761,3761>>, <<3764,3772>>,
    <<3782,3782>>, <<3784,3790>>, <<3864,3865>>, <<3893,3893>>, <<3895,3895>>, <<3897,3897>>, <<3953,3966>>,
    <<3968,3972>>, <<3974,3975>>, <<3981,3991>>, <<3993,4028>>, <<4038,4038>>, <<4141,4144>>, <<4146,4151>>,
    <<4153,4154>>, <<4157,4158>>, <<4184,4185>>, <<4190,4192>>, <<4209,4212>>, <<4226,4226>>, <<4229,4230>>,
    <<4237,4237>>, <<4253,4253>>, <<4348,4348>>, <<4957,4959>>, <<5906,5908>>, <<5938,5939>>, <<5970,5971>>,
    <<6002,6003>>, <<6068,6069>>, <<6071,6077>>, <<6086,6086>>, <<6089,6099>>, <<6103,6103>>, <<6109,6109>>,
    <<6155,6159>>, <<6211,6211>>, <<6277,6278>>, <<6313,6313>>, <<6432,6434>>, <<6439,6440>>, <<6450,6450>>,
    <<6457,6459>>, <<6679,6680>>, <<6683,6683>>, <<6742,6742>>, <<6744,6750>>, <<6752,6752>>, <<6754,6754>>,
    <<6757,6764>>, <<6771,6780>>, <<6783,6783>>, <<6823,6823>>, <<6832,6877>>, <<6880,6891>>, <<6912,6915>>,
    <<6964,6964>>, <<6966,6970>>, <<6972,6972>>, <<6978,6978>>, <<7019,7027>>, <<7040,7041>>, <<7074,7077>>,
    <<7080,7081>>, <<7083,7085>>, <<7142,7142>>, <<7144,7145>>, <<7149,7149>>, <<7151,7153>>, <<7212,7219>>,
    <<7222,7223>>, <<7288,7293>>, <<7376,7378>>, <<7380,7392>>, <<7394,7400>>, <<7405,7405>>, <<7412,7412>>,
    <<7416,7417>>, <<7468,7530>>, <<7544,7544>>, <<7579,7679>>, <<8125,8125>>, <<8127,8129>>, <<8141,8143>>,
    <<8157,8159>>, <<8173,8175>>, <<8189,8190>>, <<8203,8207>>, <<8216,8217>>, <<8228,8228>>, <<8231,8231>>,
    <<8234,8238>>, <<8288,8292>>, <<8294,8303>>, <<8305,8305>>, <<8319,8319>>, <<8336,8348>>, <<8400,8432>>,
    <<11388,11389>>, <<11503,11505>>, <<11631,11631>>, <<11647,11647>>, <<11744,11775>>, <<11823,11823>>, <<12293,12293>>,
    <<12330,12333>>, <<12337,12341>>, <<12347,12347>>, <<12441,12446>>, <<12540,12542>>, <<40981,40981>>, <<42232,42237>>,
    <<42508,42508>>, <<42607,42610>>, <<42612,42621>>, <<42623,42623>>, <<42652,42655>>, <<42736,42737>>, <<42752,42785>>,
    <<42864,42864>>, <<42888,42890>>, <<42993,42996>>, <<43000,43001>>, <<43010,43010>>, <<43014,43014>>, <<43019,43019>>,
    <<43045,43046>>, <<43052,43052>>, <<43204,43205>>, <<43232,43249>>, <<43263,43263>>, <<43302,43309>>, <<43335,43345>>,
    <<43392,43394>>, <<43443,43443>>, <<43446,43449>>, <<43452,43453>>, <<43471,43471>>, <<43493,43494>>, <<43561,43566>>,
    <<43569,43570>>, <<43573,43574>>, <<43587,43587>>, <<43596,43596>>, <<43632,43632>>, <<43644,43644>>, <<43696,43696>>,
    <<43698,43700>>, <<43703,43704>>, <<43710,43711>>, <<43713,43713>>, <<43741,43741>>, <<43756,43757>>, <<43763,43764>>,
    <<43766,43766>>, <<43867,43871>>, <<43881,43883>>, <<44005,44005>>, <<44008,44008>>, <<44013,44013>>, <<64286,64286>>,
    <<64434,64450>>, <<65024,65039>>, <<65043,65043>>, <<65056,65071>>, <<65106,65106>>, <<65109,65109>>, <<65279,65279>>,
    <<65287,65287>>, <<65294,65294>>, <<65306,65306>>, <<65342,65342>>, <<65344,65344>>, <<65392,65392>>, <<65438,65439>>,
    <<65507,65507>>, <<65529,65531>>, <<66045,66045>>, <<66272,66272>>, <<66422,66426>>, <<67456,67461>>, <<67463,67504>>,
    <<67506,67514>>, <<68097,68099>>, <<68101,68102>>, <<68108,68111>>, <<68152,68154>>, <<68159,68159>>, <<68325,68326>>,
    <<68900,68903>>, <<68942,68942>>, <<68969,68973>>, <<68975,68975>>, <<69291,69292>>, <<69317,69317>>, <<69370,69375>>,
    <<69446,69456>>, <<69506,69509>>, <<69633,69633>>, <<69688,69702>>, <<69744,69744>>, <<69747,69748>>, <<69759,69761>>,
    <<69811,69814>>, <<69817,69818>>, <<69821,69821>>, <<69826,69826>>, <<69837,69837>>, <<69888,69890>>, <<69927,69931>>,
    <<69933,69940>>, <<70003,70003>>, <<70016,70017>>, <<70070,70078>>, <<70089,70092>>, <<70095,70095>>, <<70191,70193>>,
    <<70196,70196>>, <<70198,70199>>, <<70206,70206>>, <<70209,70209>>, <<70367,70367>>, <<70371,70378>>, <<70400,70401>>,
    <<70459,70460>>, <<70464,70464>>, <<70502,70508>>, <<70512,70516>>, <<70587,70592>>, <<70606,70606>>, <<70608,70608>>,
    <<70610,70610>>, <<70625,70626>>, <<70712,70719>>, <<70722,70724>>, <<70726,70726>>, <<70750,70750>>, <<70835,70840>>,
    <<70842,70842>>, <<70847,70848>>, <<70850,70851>>, <<71090,71093>>, <<71100,71101>>, <<71103,71104>>, <<71132,71133>>,
    <<71219,71226>>, <<71229,71229>>, <<71231,71232>>, <<71339,71339>>, <<71341,71341>>, <<71344,71349>>, <<71351,71351>>,
    <<71453,71453>>, <<71455,71455>>, <<71458,71461>>, <<71463,71467>>, <<71727,71735>>, <<71737,71738>>, <<71995,71996>>,
    <<71998,71998>>, <<72003,72003>>, <<72148,72151>>, <<72154,72155>>, <<72160,72160>>, <<72193,72202>>, <<72243,72248>>,
    <<72251,72254>>, <<72263,72263>>, <<72273,72278>>, <<72281,72283>>, <<72330,72342>>, <<72344,72345>>, <<72544,72544>>,
    <<72546,72548>>, <<72550,72550>>, <<72752,72758>>, <<72760,72765>>, <<72767,72767>>, <<72850,72871>>, <<72874,72880>>,
    <<72882,72883>>, <<72885,72886>>, <<73009,73014>>, <<73018,73018>>, <<73020,73021>>, <<73023,73029>>, <<73031,73031>>,
    <<73104,73105>>, <<73109,73109>>, <<73111,73111>>, <<73177,73177>>, <<73459,73460>>, <<73472,73473>>, <<73526,73530>>,
    <<73536,73536>>, <<73538,73538>>, <<73562,73562>>, <<78896,78912>>, <<78919,78933>>, <<90398,90409>>, <<90413,90415>>,
    <<92912,92916>>, <<92976,92982>>, <<92992,92995>>, <<93504,93506>>, <<93547,93548>>, <<94031,94031>>, <<94095,94111>>,
    <<94176,94177>>, <<94179,94180>>, <<94194,94195>>, <<110576,110579>>, <<110581,110587>>, <<110589,110590>>, <<113821,113822>>,
    <<113824,113827>>, <<118528,118573>>, <<118576,118598>>, <<119143,119145>>, <<119155,119170>>, <<119173,119179>>, <<119210,119213>>,
    <<119362,119364>>, <<121344,121398>>, <<121403,121452>>, <<121461,121461>>, <<121476,121476>>, <<121499,121503>>, <<121505,121519>>,
    <<122880,122886>>, <<122888,122904>>, <<122907,122913>>, <<122915,122916>>, <<122918,122922>>, <<122928,122989>>, <<123023,123023>>,
    <<123184,123197>>, <<123566,123566>>, <<123628,123631>>, <<124139,124143>>, <<124398,124399>>, <<124643,124643>>, <<124646,124646>>,
    <<124654,124655>>, <<124661,124661>>, <<124671,124671>>, <<125136,125142>>, <<125252,125259>>, <<127995,127999>>, <<917505,917505>>,
    <<917536,917631>>, <<917760,917999>> >>

\* the property Cased, in ranges <<first, last>>
CasedRanges ==
    <<
    <<65,90>>, <<97,122>>, <<170,170>>, <<181,181>>, <<186,186>>, <<192,214>>, <<216,246>>,
    <<248,442>>, <<444,447>>, <<452,659>>, <<662,696>>, <<704,705>>, <<736,740>>, <<837,837>>,
    <<880,883>>, <<886,887>>, <<890,893>>, <<895,895>>, <<902,902>>, <<904,906>>, <<908,908>>,
    <<910,929>>, <<931,1013>>, <<1015,1153>>, <<1162,1327>>, <<1329,1366>>, <<1376,1416>>, <<4256,4293>>,
    <<4295,4295>>, <<4301,4301>>, <<4304,4346>>, <<4348,4351>>, <<5024,5109>>, <<5112,5117>>, <<7296,7306>>,
    <<7312,7354>>, <<7357,7359>>, <<7424,7615>>, <<7680,7957>>, <<7960,7965>>, <<7968,8005>>, <<8008,8013>>,
    <<8016,8023>>, <<8025,8025>>, <<8027,8027>>, <<8029,8029>>, <<8031,8061>>, <<8064,8116>>, <<8118,8124>>,
    <<8126,8126>>, <<8130,8132>>, <<8134,8140>>, <<8144,8147>>, <<8150,8155>>, <<8160,8172>>, <<8178,8180>>,
    <<8182,8188>>, <<8305,8305>>, <<8319,8319>>, <<8336,8348>>, <<8450,8450>>, <<8455,8455>>, <<8458,8467>>,
    <<8469,8469>>, <<8473,8477>>, <<8484,8484>>, <<8486,8486>>, <<8488,8488>>, <<8490,8493>>, <<8495,8500>>,
    <<8505,8505>>, <<8508,8511>>, <<8517,8521>>, <<8526,8526>>, <<8544,8575>>, <<8579,8580>>, <<9398,9449>>,
    <<11264,11492>>, <<11499,11502>>, <<11506,11507>>, <<11520,11557>>, <<11559,11559>>, <<11565,11565>>, <<42560,42605>>,
    <<42624,42653>>, <<42786,42887>>, <<42891,42894>>, <<42896,42972>>, <<42993,42998>>, <<43000,43002>>, <<43824,43866>>,
    <<43868,43881>>, <<43888,43967>>, <<64256,64262>>, <<64275,64279>>, <<65313,65338>>, <<65345,65370>>, <<66560,66639>>,
    <<66736,66771>>, <<66776,66811>>, <<66928,66938>>, <<66940,66954>>, <<66956,66962>>, <<66964,66965>>, <<66967,66977>>,
    <<66979,66993>>, <<66995,67001>>, <<67003,67004>>, <<67456,67456>>, <<67459,67461>>, <<67463,67504>>, <<67506,67514>>,
    <<68736,68786>>, <<68800,68850>>, <<68944,68965>>, <<68976,68997>>, <<71840,71903>>, <<93760,93823>>, <<93856,93880>>,
    <<93883,93907>>, <<119808,119892>>, <<119894,119964>>, <<119966,119967>>, <<119970,119970>>, <<119973,119974>>, <<119977,119980>>,
    <<119982,119993>>, <<119995,119995>>, <<119997,120003>>, <<120005,120069>>, <<120071,120074>>, <<120077,120084>>, <<120086,120092>>,
    <<120094,120121>>, <<120123,120126>>, <<120128,120132>>, <<120134,120134>>, <<120138,120144>>, <<120146,120485>>, <<120488,120512>>,
    <<120514,120538>>, <<120540,120570>>, <<120572,120596>>, <<120598,120628>>, <<120630,120654>>, <<120656,120686>>, <<120688,120712>>,
    <<120714,120744>>, <<120746,120770>>, <<120772,120779>>, <<122624,122633>>, <<122635,122654>>, <<122661,122666>>, <<122928,122989>>,
    <<125184,125251>>, <<127280,127305>>, <<127312,127337>>, <<127344,127369>> >>

\* a char lies in one of the ranges
InRanges(c, ranges) ==
    \E i \in 1..Len(ranges) : ranges[i][1] <= c /\ c <= ranges[i][2]

\* core::unicode::Case_Ignorable
Case_Ignorable(c) == InRanges(c, CaseIgnorableRanges)

\* core::unicode::Cased
Cased(c) == InRanges(c, CasedRanges)

\* the chars of the UTF-8 bytes from position i on
RECURSIVE chars_from(_, _)
chars_from(b, i) ==
    IF i > Len(b) THEN <<>>
    ELSE IF b[i] < 128 THEN <<b[i]>> \o chars_from(b, i + 1)
    ELSE IF b[i] < 224
         THEN <<(b[i] - 192) * 64 + (b[i + 1] - 128)>> \o chars_from(b, i + 2)
    ELSE IF b[i] < 240
         THEN <<(b[i] - 224) * 4096 + (b[i + 1] - 128) * 64 + (b[i + 2] - 128)>>
              \o chars_from(b, i + 3)
    ELSE <<(b[i] - 240) * 262144 + (b[i + 1] - 128) * 4096
           + (b[i + 2] - 128) * 64 + (b[i + 3] - 128)>> \o chars_from(b, i + 4)

\* str::chars: the chars of a String, decoded from its UTF-8 bytes
chars(b) == chars_from(b, 1)

\* String::push of each char in turn
RECURSIVE push_chars(_, _)
push_chars(cs, i) ==
    IF i > Len(cs) THEN <<>> ELSE encode_utf8(cs[i]) \o push_chars(cs, i + 1)

\* conversions::to_lower: the lowercase form of a char, which is the char
\* itself when it has none; U+0130 is the one char whose form has two chars
to_lower(c) ==
    IF c = 304 THEN <<105, 775>>
    ELSE LET rows == {i \in 1..Len(LowercaseTable) :
                         /\ LowercaseTable[i][1] <= c
                         /\ c <= LowercaseTable[i][2]
                         /\ (c - LowercaseTable[i][1]) % LowercaseTable[i][3] = 0}
         IN  IF rows = {} THEN <<c>>
             ELSE <<c + LowercaseTable[CHOOSE i \in rows : TRUE][4]>>

\* iter.skip_while(Case_Ignorable).next() is a Cased char
RECURSIVE case_ignorable_then_cased(_)
case_ignorable_then_cased(cs) ==
    IF cs = <<>> THEN FALSE
    ELSE IF Case_Ignorable(Head(cs)) THEN case_ignorable_then_cased(Tail(cs))
    ELSE Cased(Head(cs))

\* chars().rev()
rev(cs) == [i \in 1..Len(cs) |-> cs[Len(cs) + 1 - i]]

\* map_uppercase_sigma: the capital sigma (U+03A3) at position i lowers to the
\* final sigma (U+03C2) at the end of a word, which is after a cased letter
\* and not before one, and to the small sigma (U+03C3) elsewhere
map_uppercase_sigma(cs, i) ==
    IF /\ case_ignorable_then_cased(rev(SubSeq(cs, 1, i - 1)))
       /\ ~case_ignorable_then_cased(SubSeq(cs, i + 1, Len(cs)))
    THEN 962 ELSE 963

\* the lowercase chars of the chars from position i on
RECURSIVE lower_from(_, _)
lower_from(cs, i) ==
    IF i > Len(cs) THEN <<>>
    ELSE (IF cs[i] = 931 THEN <<map_uppercase_sigma(cs, i)>> ELSE to_lower(cs[i]))
         \o lower_from(cs, i + 1)

\* str::to_lowercase, from UTF-8 bytes to UTF-8 bytes
to_lowercase(b) ==
    Only({Only({push_chars(lowered, 1) : lowered \in {lower_from(cs, 1)}})
          : cs \in {chars(b)}})

\* str::contains
contains(hay, needle) ==
    \E k \in 0..(Len(hay) - Len(needle)) :
        SubSeq(hay, k + 1, k + Len(needle)) = needle

\* the texts the tabs and the queries of this specification hold
SearchTexts ==
    Queries \cup {TabA.title, TabA.url, TabB.title, TabB.url, TabS.title, TabS.url}

\* to_lowercase of each of them, computed once
Lowered == [s \in SearchTexts |-> to_lowercase(Utf8(s))]

\* the closure given to filter
tab_matches(tab, query_lower) ==
    \/ contains(Lowered[tab.title], query_lower)
    \/ contains(Lowered[tab.url], query_lower)

\* tabs.iter().filter(..).cloned().collect()
RECURSIVE filter_tabs(_, _)
filter_tabs(ts, query_lower) ==
    IF ts = <<>> THEN <<>>
    ELSE (IF tab_matches(Head(ts), query_lower) THEN <<Head(ts)>> ELSE <<>>)
         \o filter_tabs(Tail(ts), query_lower)

\* search_tabs on the locked snapshot
search_tabs(ts, query) ==
    IF Len(Utf8(query)) = 0 THEN ts
    ELSE filter_tabs(ts, Lowered[query])

\* the calls a thread can make
CallUpdateTabs(l) == [op |-> "update_tabs", arg |-> l]
CallGetTabs == [op |-> "get_tabs"]
CallSearchTabs(q) == [op |-> "search_tabs", arg |-> q]
CallQueueCommand(c) == [op |-> "queue_command", arg |-> c]
CallPopCommand == [op |-> "pop_command"]

LockCalls ==
    {CallUpdateTabs(l) : l \in StoredLists} \cup {CallGetTabs, CallPopCommand}
    \cup {CallSearchTabs(q) : q \in Queries}
    \cup {CallQueueCommand(SwitchToTab(5, 2))}

\* the call sites: run_ipc_server pops, reads and replaces; the WebSocket
\* tasks read, replace, queue and pop; the UI queues, reads, searches and
\* replaces
may_call(t, c) ==
    CASE t = "pipe" -> c.op \in {"pop_command", "get_tabs", "update_tabs"}
      [] t = "ws" -> c.op \in {"get_tabs", "update_tabs", "queue_command", "pop_command"}
      [] t = "ui" -> c.op \in {"queue_command", "get_tabs", "search_tabs", "update_tabs"}

\* the mutex a method locks
lock_of(c) ==
    IF c.op \in {"queue_command", "pop_command"} THEN "command_queue" ELSE "tabs"

\* the snapshot while *tab_list = tabs is under way: the old Vec is gone and
\* the new one is not whole yet
torn(new) == SubSeq(new, 1, Len(new) - 1)

lk_data == <<ipc_vars, ws_vars, ws_step, ws_order, pushed, popped, sent, tm_log,
             nh_vars, ex_pipe, window, fr_vars, rd_vars, br_vars>>

\* a thread leaves its I/O and calls a TabManager method
LkCall(t, c) ==
    /\ lk_pc[t] = "io"
    /\ lk_calls < MaxLockCalls
    /\ may_call(t, c)
    /\ lk_pc' = [lk_pc EXCEPT ![t] = "lock"]
    /\ lk_call' = [lk_call EXCEPT ![t] = c]
    /\ lk_calls' = lk_calls + 1
    /\ UNCHANGED <<lk_owner, lk_ret, tabs, command_queue, last_update, lk_data>>

\* lock() that does not wait for the holder
LkAcquireNoWait(t) ==
    /\ lk_pc[t] = "lock"
    /\ lk_owner' = [lk_owner EXCEPT ![lock_of(lk_call[t])] = t]
    /\ lk_pc' = [lk_pc EXCEPT ![t] = "held"]
    /\ UNCHANGED <<lk_call, lk_ret, lk_calls, tabs, command_queue, last_update, lk_data>>

\* self.tabs.lock().unwrap() / self.command_queue.lock().unwrap(): the first
\* statement of every method; the thread blocks while another holds the mutex
LkAcquire(t) ==
    /\ lk_pc[t] = "lock"
    /\ lk_owner[lock_of(lk_call[t])] = NoThread
    /\ lk_owner' = [lk_owner EXCEPT ![lock_of(lk_call[t])] = t]
    /\ lk_pc' = [lk_pc EXCEPT ![t] = "held"]
    /\ UNCHANGED <<lk_call, lk_ret, lk_calls, tabs, command_queue, last_update, lk_data>>

\* update_tabs: the assignment *tab_list = tabs has started
LkAssign(t) ==
    /\ lk_pc[t] = "held"
    /\ lk_call[t].op = "update_tabs"
    /\ tabs' = torn(lk_call[t].arg)
    /\ lk_pc' = [lk_pc EXCEPT ![t] = "assigning"]
    /\ UNCHANGED <<lk_owner, lk_call, lk_ret, lk_calls, command_queue, last_update, lk_data>>

\* the value a call returns, the tab list and the queue it leaves
lk_effect(c, ts, q) ==
    CASE c.op = "update_tabs" ->
           [value |-> <<>>, tabs |-> update_tabs(ts, c.arg), queue |-> q]
      [] c.op = "get_tabs" ->
           [value |-> get_tabs(ts), tabs |-> ts, queue |-> q]
      [] c.op = "search_tabs" ->
           [value |-> search_tabs(ts, c.arg), tabs |-> ts, queue |-> q]
      [] c.op = "queue_command" ->
           [value |-> <<>>, tabs |-> ts, queue |-> queue_command(q, c.arg)]
      [] c.op = "pop_command" ->
           [value |-> pop_command(q).result, tabs |-> ts, queue |-> pop_command(q).queue]

\* the body of the method under the guard: the replacement completes, or
\* the copy, the search, the push_back or the pop_front is made
LkRun(t) ==
    /\ \/ lk_pc[t] = "held" /\ lk_call[t].op # "update_tabs"
       \/ lk_pc[t] = "assigning"
    /\ \E e \in {lk_effect(lk_call[t], tabs, command_queue)} :
          /\ tabs' = e.tabs
          /\ command_queue' = e.queue
          /\ last_update' = IF lk_call[t].op = "update_tabs"
                            THEN lk_call[t].arg ELSE last_update
          /\ lk_ret' = [thread |-> t, call |-> lk_call[t], value |-> e.value,
                        latest |-> last_update,
                        before |-> [tabs |-> tabs, queue |-> command_queue],
                        after |-> [tabs |-> e.tabs, queue |-> e.queue]]
    /\ lk_pc' = [lk_pc EXCEPT ![t] = "unlock"]
    /\ UNCHANGED <<lk_owner, lk_call, lk_calls, lk_data>>

\* a method returning to its caller with the guard still alive
LkReleaseKeeps(t) ==
    /\ lk_pc[t] = "unlock"
    /\ lk_pc' = [lk_pc EXCEPT ![t] = "io"]
    /\ lk_call' = [lk_call EXCEPT ![t] = NoCall]
    /\ UNCHANGED <<lk_owner, lk_ret, lk_calls, tabs, command_queue, last_update, lk_data>>

\* the guard is dropped at the end of the method and the thread goes back to
\* its I/O (the pipe, the socket, the channel, the timer, the window)
LkRelease(t) ==
    /\ lk_pc[t] = "unlock"
    /\ lk_owner' = [lk_owner EXCEPT ![lock_of(lk_call[t])] = NoThread]
    /\ lk_pc' = [lk_pc EXCEPT ![t] = "io"]
    /\ lk_call' = [lk_call EXCEPT ![t] = NoCall]
    /\ UNCHANGED <<lk_ret, lk_calls, tabs, command_queue, last_update, lk_data>>

LkThread(t) ==
    \/ \E c \in LockCalls : LkCall(t, c)
    \/ LkAcquire(t)
    \/ LkAssign(t)
    \/ LkRun(t)
    \/ LkRelease(t)

NextLocks == \E t \in Threads : LkThread(t)

SpecLocks == Init /\ [][NextLocks]_vars

\* ======================================================================
\* One bridge and the pipe server, exchange by exchange (SpecExchange)
\* ======================================================================
ex_rest == <<ws_vars, ws_step, ws_order, tm_log, lk_vars, fr_vars, rd_vars, br_vars, window>>

\* ClientOptions::new().open(PIPE_NAME) returned Ok: the server's instance
\* was waiting for a client, which the bridge now holds
ExOpenOk ==
    /\ nh_pc = "open"
    /\ attempts_left(conn_attempts)
    /\ LauncherRuns
    /\ ipc_pc = "listen"
    /\ ex_pipe.conn = "none"
    /\ conn_attempts' = conn_attempts + 1
    /\ nh_pc' = "send"
    /\ ex_pipe' = Pipe("connected", <<>>, <<>>)
    /\ UNCHANGED <<nh_message, nh_result, conn_slept_ms, ipc_vars,
                   store_vars, queue_vars, sent, ex_rest>>

\* open returned Err, no pipe instance being free: sleep 100 ms
ExOpenFail ==
    /\ nh_pc = "open"
    /\ attempts_left(conn_attempts)
    /\ ~(LauncherRuns /\ ipc_pc = "listen" /\ ex_pipe.conn = "none")
    /\ conn_attempts' = conn_attempts + 1
    /\ nh_pc' = "sleep"
    /\ UNCHANGED <<nh_message, nh_result, conn_slept_ms, ipc_vars, ex_pipe, window,
                   store_vars, queue_vars, sent, ex_rest>>

\* server.connect() returned Ok: a client has opened the instance
ExAccept ==
    /\ LauncherRuns
    /\ ipc_pc = "listen"
    /\ ex_pipe.conn = "connected"
    /\ ipc_pc' = "read"
    /\ UNCHANGED <<ipc_request, ipc_response, nh_vars, ex_pipe, window,
                   store_vars, queue_vars, sent, ex_rest>>

\* server.connect() returned Err: next iteration of the outer loop, the
\* instance is dropped
ExAcceptFail ==
    /\ LauncherRuns
    /\ ipc_pc = "listen"
    /\ ipc_pc' = "create"
    /\ ex_pipe' = IF ex_pipe.conn = "connected"
                  THEN Pipe("server_closed", <<>>, <<>>)
                  ELSE IF ex_pipe.conn = "client_closed" THEN NoPipe
                  ELSE ex_pipe
    /\ UNCHANGED <<ipc_request, ipc_response, nh_vars,
                   store_vars, queue_vars, sent, ex_rest>>

\* the bridge's send_message or flush returned Err: communicate_with_launcher
\* returns the error and drops the client
ExSendFail ==
    /\ nh_pc = "send"
    /\ nh_pc' = "idle"
    /\ nh_result' = Err("Io")
    /\ ex_pipe' = IF ex_pipe.conn = "connected"
                  THEN Pipe("client_closed", ex_pipe.to_server, <<>>)
                  ELSE NoPipe
    /\ UNCHANGED <<nh_message, conn_attempts, conn_slept_ms, ipc_vars,
                   store_vars, queue_vars, sent, ex_rest>>

\* the bridge's send_message and flush returned Ok: the message is in the
\* pipe
ExSend ==
    /\ nh_pc = "send"
    /\ ex_pipe.conn = "connected"
    /\ nh_pc' = "recv"
    /\ ex_pipe' = [ex_pipe EXCEPT !.to_server = Append(@, nh_message)]
    /\ UNCHANGED <<nh_message, nh_result, conn_attempts, conn_slept_ms, ipc_vars,
                   store_vars, queue_vars, sent, ex_rest>>

\* the server's read_message returned the message the bridge wrote: the
\* match up to its first TabManager call
ExRead ==
    /\ LauncherRuns
    /\ ipc_pc = "read"
    /\ ex_pipe.to_server # <<>>
    /\ \E m \in {Head(ex_pipe.to_server)} :
       \E h \in {ipc_handle(m, tabs, command_queue)} :
          /\ tabs' = h.tabs
          /\ last_update' = IF m.type = "TabList" THEN m.tabs ELSE last_update
          /\ command_queue' = h.queue
          /\ popped' = IF h.pop # None /\ h.pop.value # None
                          THEN Append(popped, h.pop.value.value) ELSE popped
          /\ ipc_request' = m
          /\ ipc_pc' = h.next
          /\ ipc_response' = IF h.response = None THEN ipc_response
                                                  ELSE h.response.value
    /\ ex_pipe' = [ex_pipe EXCEPT !.to_server = Tail(@)]
    /\ UNCHANGED <<nh_vars, pushed, sent, ex_rest>>

\* the server's send_message returned Ok: the response is in the pipe, back
\* to read_message
ExRespond ==
    /\ LauncherRuns
    /\ ipc_pc = "respond"
    /\ ex_pipe.conn = "connected"
    /\ ipc_pc' = "read"
    /\ ipc_request' = NoMsg
    /\ ipc_response' = NoMsg
    /\ sent' = IF ipc_response.type = "ChromeCommand" THEN sent + 1 ELSE sent
    /\ ex_pipe' = [ex_pipe EXCEPT !.to_bridge = Append(@, ipc_response)]
    /\ UNCHANGED <<nh_vars, store_vars, queue_vars, ex_rest>>

\* the server's send_message returned Err: break, the instance is dropped
ExServerSendFail ==
    /\ LauncherRuns
    /\ ipc_pc = "respond"
    /\ ex_pipe.conn \in {"connected", "client_closed"}
    /\ ipc_pc' = "create"
    /\ ipc_request' = NoMsg
    /\ ipc_response' = NoMsg
    /\ ex_pipe' = IF ex_pipe.conn = "connected"
                  THEN Pipe("server_closed", <<>>, ex_pipe.to_bridge)
                  ELSE NoPipe
    /\ UNCHANGED <<nh_vars, store_vars, queue_vars, sent, ex_rest>>

\* the bridge's read_message returned the response the server wrote:
\* communicate_with_launcher returns Ok(response) and drops the client
ExRecv ==
    /\ nh_pc = "recv"
    /\ ex_pipe.to_bridge # <<>>
    /\ nh_pc' = "idle"
    /\ nh_result' = Ok(Head(ex_pipe.to_bridge))
    /\ ex_pipe' = IF ex_pipe.conn = "connected"
                  THEN Pipe("client_closed", ex_pipe.to_server, <<>>)
                  ELSE NoPipe
    /\ UNCHANGED <<nh_message, conn_attempts, conn_slept_ms, ipc_vars,
                   store_vars, queue_vars, sent, ex_rest>>

\* the bridge's read_message returned Err, the server having dropped the
\* instance: communicate_with_launcher returns the error and drops the client
ExRecvFail ==
    /\ nh_pc = "recv"
    /\ ex_pipe.to_bridge = <<>>
    /\ ex_pipe.conn = "server_closed"
    /\ nh_pc' = "idle"
    /\ nh_result' = Err("Io")
    /\ ex_pipe' = NoPipe
    /\ UNCHANGED <<nh_message, conn_attempts, conn_slept_ms, ipc_vars,
                   store_vars, queue_vars, sent, ex_rest>>

\* the bridge has returned from communicate_with_launcher and dropped its
\* client: the server's read_message returns Err and it breaks
ExServerReadFail ==
    /\ LauncherRuns
    /\ ipc_pc = "read"
    /\ ex_pipe.to_server = <<>>
    /\ ex_pipe.conn = "client_closed"
    /\ ipc_pc' = "create"
    /\ ipc_request' = NoMsg
    /\ ex_pipe' = NoPipe
    /\ UNCHANGED <<ipc_response, nh_vars, store_vars, queue_vars, sent, ex_rest>>

NextExchange ==
    \/ (\E p \in SwitchTargets : UiQueueCommand(p))
    \/ UiEscape \/ UiExit
    \/ (\E m \in BridgeMessages : NhCommunicate(m))
    \/ ExOpenOk \/ ExOpenFail \/ ConnSleepDone
    \/ ExAccept \/ ExAcceptFail
    \/ ExSend \/ ExSendFail \/ ExRead \/ IpcGetTabs
    \/ ExRespond \/ ExServerSendFail
    \/ ExRecv \/ ExRecvFail
    \/ ExServerReadFail
    \/ IpcCreateOk \/ IpcCreateFail \/ IpcSleepDone

\* both processes keep running: sleeps end, pipe operations that can
\* complete do, and a window told to close does close. The launcher's pipe
\* server is taken to be running, as the bridge's progress presupposes: a
\* pipe creation that is retried for ever does not fail for ever
SpecExchange ==
    /\ Init /\ [][NextExchange]_vars
    /\ WF_vars(UiExit)
    /\ WF_vars(IpcSleepDone)
    /\ SF_vars(IpcCreateOk)
    /\ WF_vars(ConnSleepDone)
    /\ WF_vars(ExOpenOk \/ ExOpenFail)
    /\ WF_vars(ExAccept)
    /\ WF_vars(ExSend \/ ExSendFail)
    /\ WF_vars(ExRead)
    /\ WF_vars(IpcGetTabs)
    /\ WF_vars(ExRespond \/ ExServerSendFail)
    /\ WF_vars(ExRecv)
    /\ WF_vars(ExRecvFail)
    /\ WF_vars(ExServerReadFail)

\* ======================================================================
\* Properties of the launcher process (Spec, SpecShared)
\* ======================================================================

SeqSum(f, S) == LET RECURSIVE go(_)
                    go(T) == IF T = {} THEN 0
                             ELSE LET x == CHOOSE y \in T : TRUE
                                  IN f[x] + go(T \ {x})
                IN go(S)

\* commands popped and on their way to the browser: the ChromeCommand response
\* being written to the pipe, the commands the pollers are sending into the
\* channels, the entries of the channels and the tabSwitchRequested events
\* being sent
InFlight ==
    (IF ipc_pc = "respond" /\ ipc_response.type = "ChromeCommand" THEN 1 ELSE 0)
    + SeqSum([s \in Sessions |->
                 Len(command_rx[s])
                 + (IF poller_held[s] # None THEN 1 ELSE 0)
                 + (IF /\ ws_state[s] = "sending"
                       /\ ws_sending[s].value.type = "event"
                       /\ ws_sending[s].value.event = "tabSwitchRequested"
                    THEN 1 ELSE 0)], Sessions)

\* C1 (as claimed): every command given to queue_command is still queued, is
\* on its way to the browser, or has been sent to the browser side exactly
\* once; no command leaves the queue without being sent.
C1_DeliveredExactlyOnce ==
    Len(pushed) = Len(command_queue) + InFlight + sent

Count(seq, x) == Cardinality({i \in 1..Len(seq) : seq[i] = x})

\* a step that calls pop_command: the pipe GetTabs arm or a poller iteration
PopStep == IpcRead(GetTabsMsg) \/ (\E s \in Sessions : PollerTick(s))

\* C2: pop_command is atomic under concurrent pollers: no pushed command is
\* returned by more pops than it was pushed, the queue length is pushes minus
\* successful pops, and a pop on the empty queue returns absent and leaves the
\* queue as it is.
C2_PopAtomic ==
    /\ [](/\ Len(command_queue) = Len(pushed) - Len(popped)
          /\ \A c \in {pushed[i] : i \in 1..Len(pushed)}
                      \cup {popped[i] : i \in 1..Len(popped)} :
                Count(popped, c) + Count(command_queue, c) = Count(pushed, c))
    /\ [][(PopStep /\ command_queue = <<>>) =>
              (command_queue' = <<>> /\ popped' = popped)]_vars
    /\ [][(PopStep /\ command_queue # <<>>) =>
              (Len(command_queue') = Len(command_queue) - 1
               /\ Len(popped') = Len(popped) + 1)]_vars

\* C2 witness: two pushed commands were popped by two different pollers, one
\* by the pipe GetTabs arm and one by a WebSocket poller
C2_Witness ==
    /\ Len(popped) = 2
    /\ ipc_pc = "respond" /\ ipc_response.type = "ChromeCommand"
    /\ \E s \in Sessions : Len(command_rx[s]) = 1

\* two tab records agree field for field
SameTab(a, b) ==
    /\ a.id = b.id /\ a.window_id = b.window_id /\ a.title = b.title
    /\ a.url = b.url /\ a.fav_icon_url = b.fav_icon_url
    /\ a.active = b.active /\ a.index = b.index

\* two tab lists agree in length, order and every field
SameTabs(x, y) ==
    /\ Len(x) = Len(y)
    /\ \A i \in 1..Len(x) : SameTab(x[i], y[i])

\* the message loop has just read m and computed a response to it
IpcAnswering(m) ==
    ipc_pc = "read" /\ ipc_pc' = "respond" /\ ipc_request' = m

\* the message loop has just read m and made the first TabManager call of
\* its arm
IpcHandling(m) ==
    ipc_pc = "read" /\ ipc_pc' \in {"respond", "get_tabs"} /\ ipc_request' = m

\* the GetTabs arm has just made its get_tabs call
IpcReadingTabs == ipc_pc = "get_tabs" /\ ipc_pc' = "respond"

\* C4: for a GetTabs read from the pipe the server pops the queue; exactly
\* when the queue is non-empty at that moment it answers ChromeCommand
\* carrying the head of the queue, which is removed while the snapshot
\* stays; otherwise it goes on to read the snapshot and answers TabList
\* carrying the snapshot of that moment field for field, queue and snapshot
\* staying as they are.
C4_GetTabsPriority ==
    [][/\ IpcHandling(GetTabsMsg) =>
            IF command_queue # <<>>
            THEN /\ ipc_pc' = "respond"
                 /\ ipc_response'.type = "ChromeCommand"
                 /\ ipc_response'.command.type = "SwitchToTab"
                 /\ ipc_response'.command.tab_id = Head(command_queue).tab_id
                 /\ ipc_response'.command.window_id = Head(command_queue).window_id
                 /\ command_queue' = Tail(command_queue)
                 /\ popped' = Append(popped, Head(command_queue))
                 /\ tabs' = tabs
            ELSE /\ ipc_pc' = "get_tabs"
                 /\ command_queue' = command_queue
                 /\ popped' = popped
                 /\ tabs' = tabs
       /\ IpcReadingTabs =>
            /\ ipc_request = GetTabsMsg
            /\ ipc_response'.type = "TabList"
            /\ SameTabs(ipc_response'.tabs, tabs)
            /\ command_queue' = command_queue
            /\ popped' = popped
            /\ tabs' = tabs]_vars

\* C4 witness: with two commands pending and no WebSocket poller, two GetTabs
\* were answered with the two commands in push order, and the third one is
\* being answered with the non-empty tab list
C4_Witness ==
    /\ Len(pushed) = 2 /\ pushed[1] # pushed[2]
    /\ popped = pushed /\ sent = 2
    /\ \A s \in Sessions : ws_state[s] = "idle"
    /\ ipc_pc = "respond" /\ ipc_request = GetTabsMsg
    /\ ipc_response.type = "TabList" /\ Len(ipc_response.tabs) = 2

\* C5 (as claimed): a switch-to-tab request on either transport appends
\* SwitchCommand{tab_id, window_id} to the shared queue: a pipe SwitchToTab
\* message as well as a WebSocket switchToTab request.
C5_SwitchRequestQueues ==
    [][/\ \A p \in SwitchTargets :
            IpcAnswering(SwitchToTabMsg(p[1], p[2])) =>
                command_queue' = Append(command_queue, SwitchToTab(p[1], p[2]))
       /\ \A p \in SwitchTargets, s \in Sessions :
            WsRequest(s, from_str(json_request("1", "switchToTab",
                                      json_switch_params(p[1], p[2]))).value, 42) =>
                command_queue' = Append(command_queue, SwitchToTab(p[1], p[2]))]_vars

\* C6: a TabList pushed over the pipe replaces the snapshot with exactly its
\* tabs, is acknowledged with TabSwitchResult{success: true, error: null} and
\* leaves the queue alone; until the next replace every transport reads that
\* list: a WebSocket getTabs, and a pipe GetTabs when the queue is empty.
C6_TabListReplaces ==
    /\ [][\A ts \in TabLists :
             IpcAnswering(TabListMsg(ts)) =>
                 /\ SameTabs(tabs', ts)
                 /\ ipc_response' = TabSwitchResultMsg(TRUE, None)
                 /\ command_queue' = command_queue
                 /\ popped' = popped /\ pushed' = pushed]_vars
    /\ [](/\ SameTabs(tabs, last_update)
          /\ LET r == handle_request("1", "getTabs", None, 42, tabs, command_queue).response
             IN r.error = None /\ SameTabs(r.result.value.tabs, last_update)
          /\ command_queue = <<>> =>
                /\ ipc_handle(GetTabsMsg, tabs, command_queue).next = "get_tabs"
                /\ ipc_tab_list(tabs).type = "TabList"
                /\ SameTabs(ipc_tab_list(tabs).tabs, last_update))

\* C6 witness: a pipe TabList of two tabs has replaced the snapshot while a
\* command is pending, and is being acknowledged
C6_Witness ==
    /\ ipc_pc = "respond" /\ ipc_request = TabListMsg(<<TabB, TabA>>)
    /\ ipc_response = TabSwitchResultMsg(TRUE, None)
    /\ tabs = <<TabB, TabA>>
    /\ command_queue # <<>>

\* C7 (as claimed): whenever the message loop is about to read the next
\* message from the connection, every message it read before has been
\* answered with a response.
C7_RequestThenRespond ==
    ipc_pc = "read" => ipc_request = NoMsg

\* ======================================================================
\* Properties of the TabManager used from one thread (SpecTabManager)
\* ======================================================================
SelectLog(log, op) == SelectSeq(log, LAMBDA e : e.op = op)

\* the commands queued by the first n calls of the log, in call order
PushedBefore(n) ==
    LET pushes == SelectLog(SubSeq(tm_log, 1, n), "queue_command")
    IN [i \in 1..Len(pushes) |-> pushes[i].arg]

\* the number of the first n calls that were pops returning a command
PoppedBefore(n) ==
    Len(SelectSeq(SubSeq(tm_log, 1, n),
                  LAMBDA e : e.op = "pop_command" /\ e.result # None))

\* C3: the queue is FIFO: every pop_command returns the oldest command not
\* yet returned, so successive pops return the commands in the order they
\* were pushed, and a pop made when as many pops as pushes have succeeded
\* returns absent.
C3_Fifo ==
    \A i \in 1..Len(tm_log) :
        tm_log[i].op = "pop_command" =>
            LET before == PushedBefore(i - 1)
                k == PoppedBefore(i - 1)
            IN tm_log[i].result =
                  IF k < Len(before) THEN Some(before[k + 1]) ELSE None

\* C3 witness: c1, c2, c3 were pushed, then four pops returned c1, c2, c3
\* and absent
C3_Witness ==
    LET c1 == SwitchToTab(5, 2)
        c2 == SwitchToTab(7, 3)
        c3 == SwitchToTab(9, 4)
    IN tm_log = << [op |-> "queue_command", arg |-> c1],
                   [op |-> "queue_command", arg |-> c2],
                   [op |-> "queue_command", arg |-> c3],
                   [op |-> "pop_command", result |-> Some(c1)],
                   [op |-> "pop_command", result |-> Some(c2)],
                   [op |-> "pop_command", result |-> Some(c3)],
                   [op |-> "pop_command", result |-> None] >>

\* ======================================================================
\* Properties of the pipe server task (SpecIpcFair)
\* ======================================================================
IpcLoopPositions == {"create", "sleep", "listen", "read", "get_tabs", "respond"}

\* the moves of the server between the positions of its loop
IpcLoopStep ==
    /\ ((ipc_pc \in {"read", "get_tabs", "respond"}
           /\ ipc_pc' \notin {"read", "get_tabs", "respond"})
          => (ipc_pc' = "create" /\ tabs' = tabs /\ command_queue' = command_queue))
    /\ ((ipc_pc = "create" /\ ipc_pc' # "create") => (ipc_pc' \in {"listen", "sleep"}))
    /\ ((ipc_pc = "sleep" /\ ipc_pc' # "sleep") => (ipc_pc' = "create"))
    /\ ((ipc_pc = "listen" /\ ipc_pc' # "listen") => (ipc_pc' \in {"read", "create"}))

\* C8 as stated: no transport failure ends the pipe server task, every
\* teardown leads to a new creation with the snapshot and the queue as they
\* were, and from every reachable server state the server is waiting for a
\* client again at some later time; read in the claim's favour, a launcher
\* whose window has closed is not held against it.
C8_AlwaysListensAgain ==
    /\ [](ipc_pc \in IpcLoopPositions)
    /\ [][IpcLoopStep]_vars
    /\ []<>(ipc_pc = "listen" \/ ~LauncherRuns)

\* C8: no transport failure ends the pipe server task: it stays inside its
\* loop; a failed read or write leaves an established connection only towards
\* a new creation and keeps the snapshot and the queue as they are; and for
\* as long as the launcher's window has not closed, a failed creation is
\* followed by the 5 s sleep and the sleep by a new creation, whose success
\* makes the server wait for a client again.
C8_IpcServerSurvives ==
    /\ [](ipc_pc \in IpcLoopPositions)
    /\ [][IpcLoopStep]_vars
    /\ (ipc_pc = "sleep") ~> (ipc_pc = "create" \/ ~LauncherRuns)
    /\ (ipc_pc = "create") ~> (ipc_pc \in {"listen", "sleep"} \/ ~LauncherRuns)

\* C8 witness: the server waits for a client again after a connection that
\* carried a tab list was torn down, snapshot and queue still filled
C8_Witness ==
    /\ ipc_pc = "listen"
    /\ tabs = <<TabB, TabA>>
    /\ Len(command_queue) = 2

\* ======================================================================
\* Properties of the bridge's pipe client (SpecConnect)
\* ======================================================================
Connecting == nh_pc \in {"open", "sleep"}

\* C9: connect_to_ipc_server terminates: it makes at most 10 open attempts,
\* sleeps 100 ms after each failed one, returns the connection at the first
\* open that succeeds, and returns ConnectionRefused once the 10th attempt
\* has failed, without a further attempt.
C9_ConnectBounded ==
    /\ [](/\ conn_attempts <= MaxConnectAttempts
          /\ nh_pc = "open" => conn_slept_ms = ConnectDelayMs * conn_attempts
          /\ nh_pc = "sleep" => conn_slept_ms = ConnectDelayMs * (conn_attempts - 1)
          /\ nh_pc \in {"send", "recv"} =>
                (conn_attempts >= 1 /\ conn_slept_ms = ConnectDelayMs * (conn_attempts - 1))
          /\ nh_result = Err("ConnectionRefused") =>
                (/\ nh_pc = "idle"
                 /\ conn_attempts = MaxConnectAttempts
                 /\ conn_slept_ms = ConnectDelayMs * MaxConnectAttempts))
    /\ [][(Connecting /\ ~Connecting') =>
              \/ (nh_pc = "open" /\ nh_pc' = "send")
              \/ (nh_pc = "sleep" /\ conn_attempts = MaxConnectAttempts
                   /\ nh_result' = Err("ConnectionRefused"))]_vars
    /\ Connecting ~> ~Connecting

\* C9 witness: all 10 attempts failed and the caller got ConnectionRefused
C9_Witness ==
    /\ nh_pc = "idle"
    /\ nh_result = Err("ConnectionRefused")
    /\ conn_attempts = 10
    /\ conn_slept_ms = 1000

\* ======================================================================
\* Properties of the framing (SpecFraming)
\* ======================================================================
\* C10: every read_message returns the message whose envelope was the oldest
\* one written and not yet read, equal to the message given to send_message,
\* and has consumed exactly 4 + length bytes for it; so every message sent
\* is either still to be read or was returned, in the order of the sends,
\* and once every envelope written was read nothing is left in the stream
\* and no byte of a further envelope was taken.
C10_FramingRoundTrip ==
    /\ fr_step # NoFrStep =>
          /\ fr_step.expected # None
          /\ fr_step.result = Ok(fr_step.expected.value)
          /\ fr_step.consumed = 4 + Len(to_string(fr_step.expected.value))
    /\ fr_reads + Len(fr_sent) = fr_calls
    /\ (fr_writer.pc = "idle" /\ fr_sent = <<>>) =>
          (fr_stream = <<>> /\ fr_pos = 0 /\ fr_reader.pc = "length")

\* over a stream that holds 16 bytes two envelopes were written and both
\* were read; the second one, written and read in pieces, carried a tab
\* list with an escaped title
C10_Witness ==
    /\ fr_capacity = 16
    /\ fr_reads = 2
    /\ fr_step.result = Ok(TabListMsg(<<TabB, TabQ>>))
    /\ fr_step.consumed > 16
    /\ fr_stream = <<>>
    /\ fr_writer.pc = "idle"

\* ======================================================================
\* Properties of the envelope decoding (SpecPipeRead)
\* ======================================================================
\* C11: an envelope whose advertised length is 0 or above 1,048,576 is
\* rejected before any body byte is read: once the pipe reader has decoded
\* such a length it takes no body byte from the stream and does not get to
\* parse a body into a message.
C11_LengthValidated ==
    (rd_pc \in {"body", "parse"} /\ rd_length \notin 1..MaxMessageLength)
    => /\ rd_body.read = 0
       /\ rd_pc = "parse" => parse_body(rd_body).kind = "Err"

\* ======================================================================
\* Properties of the bridge's stdin loop (SpecBridge)
\* ======================================================================
\* a step of the loop that ends it while a length or a body is being read
BrStopsReading == br_pc \in {"length", "body"} /\ br_pc' = "exited"

\* C12: the bridge loop ends cleanly. A body is read only for a length in
\* 1..1,048,576 and dispatched only when read whole; a length of 0 or above
\* 1,048,576 and an end of stdin (before the length or inside the body) end
\* the loop; the step that ends it writes no Response and gives nothing to
\* the launcher; after it nothing more is read, written or sent; and main
\* returns Ok(()).
C12_BridgeExitsCleanly ==
    /\ [](/\ br_pc \in {"body", "dispatch"} => br_length \in 1..MaxMessageLength
          /\ br_pc = "dispatch" => br_body.read = br_length
          /\ br_pc = "exited" <=> br_exit = OkUnit
          /\ br_pc # "exited" => br_exit = NoResult)
    /\ [][/\ (br_pc = "length" /\ br_reads' # br_reads
                 /\ from_le_bytes(br_prefix') \notin 1..MaxMessageLength)
              => br_pc' = "exited"
          /\ (br_pc = "length" /\ br_reads' = br_reads) => br_pc' = "exited"
          /\ (br_pc = "body" /\ br_body'.read < br_length) => br_pc' = "exited"
          /\ BrStopsReading => (br_written' = br_written /\ br_sent' = br_sent)
          /\ br_pc = "exited" => br_vars' = br_vars]_vars

\* C12 witness: after one Response was written the browser advertised
\* 1,048,577 bytes; the bridge has left the loop without reading the body
C12_Witness ==
    /\ br_pc = "exited"
    /\ br_exit = OkUnit
    /\ br_length = MaxMessageLength + 1
    /\ br_body.read = 0
    /\ Len(br_written) = 1
    /\ Len(br_sent) = 1

\* the Response made in the latest pass is the only thing written by it
WroteAtMostTheResponse ==
    /\ Len(br_written) = br_step.before + (IF br_step.written THEN 1 ELSE 0)
    /\ br_step.written => br_written[Len(br_written)] = br_step.response.value

\* C24: for a getTabs command the bridge sends GetTabs over the pipe and
\* makes exactly one Response, the only thing it writes: a TabList reply
\* becomes tabList with the same tabs in the same order with the same
\* field values; a ChromeCommand SwitchToTab reply becomes switchResult
\* with success true, tabId = tab_id and error "SWITCH_TAB:<tab_id>:<window_id>".
C24_GetTabsTranslation ==
    (br_step.parsed /\ br_step.text = StdinGetTabs) =>
        /\ br_step.sent = Some(GetTabsMsg)
        /\ br_step.response # None
        /\ WroteAtMostTheResponse
        /\ (br_step.result.kind = "Ok" /\ br_step.result.value.type = "TabList") =>
              LET ts == br_step.result.value.tabs
                  r == br_step.response.value
              IN /\ DOMAIN r = {"type", "tabs"}
                 /\ r.type = "tabList"
                 /\ Len(r.tabs) = Len(ts)
                 /\ \A i \in 1..Len(ts) :
                       /\ r.tabs[i].id = ts[i].id
                       /\ r.tabs[i].windowId = ts[i].window_id
                       /\ r.tabs[i].title = ts[i].title
                       /\ r.tabs[i].url = ts[i].url
                       /\ r.tabs[i].favIconUrl = ts[i].fav_icon_url
                       /\ r.tabs[i].active = ts[i].active
                       /\ r.tabs[i].index = ts[i].index
        /\ (br_step.result.kind = "Ok" /\ br_step.result.value.type = "ChromeCommand") =>
              br_step.response.value =
                  [type |-> "switchResult", success |-> TRUE,
                   tabId |-> Some(br_step.result.value.command.tab_id),
                   error |-> Some(<<"SWITCH_TAB:",
                                    br_step.result.value.command.tab_id, ":",
                                    br_step.result.value.command.window_id>>)]

\* a getTabs answered by the launcher with the queued SwitchToTab{5, 2} was
\* written to stdout as the switchResult carrying "SWITCH_TAB:5:2"
C24_Witness ==
    /\ br_step.parsed /\ br_step.text = StdinGetTabs
    /\ br_step.result = Ok(ChromeCommandMsg(SwitchToTab(5, 2)))
    /\ br_step.written
    /\ br_written[Len(br_written)].error = Some(<<"SWITCH_TAB:", 5, ":", 2>>)

\* the exchange with the launcher failed, or its reply is not of a type
\* the command expects
ExchangeFailed(expected) ==
    \/ br_step.result.kind = "Err"
    \/ br_step.result.kind = "Ok" /\ br_step.result.value.type \notin expected

\* C25: when the launcher cannot be reached, the exchange fails or the reply
\* is of an unexpected type, getTabs is answered with an empty tabList and
\* switchToTab with switchResult {success false, tabId null, error "Failed
\* to communicate with launcher"}; a pushed tab list or acknowledgement that
\* could not be forwarded is dropped; in each case the bridge goes on to
\* read the next message from stdin.
C25_SilentDegradation ==
    /\ (br_step.parsed /\ br_step.text \in {StdinGetTabs, StdinCommandWithType}
           /\ ExchangeFailed({"TabList", "ChromeCommand"})) =>
          /\ br_step.response = Some([type |-> "tabList", tabs |-> <<>>])
          /\ WroteAtMostTheResponse
          /\ br_step.written => br_step.next = "length"
    /\ (br_step.parsed /\ br_step.text = StdinSwitchToTab(5, 2)
           /\ ExchangeFailed({"TabSwitchResult"})) =>
          /\ br_step.response =
                Some([type |-> "switchResult", success |-> FALSE, tabId |-> None,
                      error |-> Some(<<"Failed to communicate with launcher">>)])
          /\ WroteAtMostTheResponse
          /\ br_step.written => br_step.next = "length"
    /\ (br_step.parsed /\ br_step.result.kind = "Err"
           /\ br_step.text \in {StdinTabList(<<ToNativeTab(TabA)>>),
                                StdinTabSwitchAck(TRUE, 5, 2),
                                StdinTabSwitchAck(FALSE, 5, 2)}) =>
          /\ br_step.response = None
          /\ br_step.next = "length"
          /\ Len(br_written) = br_step.before

\* a switchToTab whose connection was refused was answered with the failure
\* switchResult, and the bridge then read the length of the next message
C25_Witness ==
    /\ br_step.parsed /\ br_step.text = StdinSwitchToTab(5, 2)
    /\ br_step.result = Err("ConnectionRefused")
    /\ br_step.written
    /\ br_written[Len(br_written)].error = Some(<<"Failed to communicate with launcher">>)
    /\ br_pc = "body"

\* C26: a body that deserializes as a Command is handled as a command even
\* when it has a "type" member, and gets exactly one Response; a pushed
\* tab list and a tabSwitchAck are forwarded and get no Response; a body of
\* no known shape gets no Response and nothing is sent for it; a body that
\* is not JSON is dropped; the loop goes on in each case unless writing the
\* Response to stdout fails.
C26_DispatchPriority ==
    /\ (br_step.parsed /\ br_step.text \in {StdinGetTabs, StdinCommandWithType}) =>
          /\ br_step.sent = Some(GetTabsMsg)
          /\ br_step.response # None
    /\ (br_step.parsed /\ br_step.text = StdinSwitchToTab(5, 2)) =>
          /\ br_step.sent = Some(SwitchToTabMsg(5, 2))
          /\ br_step.response # None
    /\ (br_step.parsed /\ br_step.text = StdinTabList(<<ToNativeTab(TabA)>>)) =>
          /\ br_step.sent = Some(TabListMsg(<<TabA>>))
          /\ br_step.response = None
    /\ (br_step.parsed /\ \E ok \in BOOLEAN : br_step.text = StdinTabSwitchAck(ok, 5, 2)) =>
          /\ br_step.sent # None
          /\ br_step.sent.value.type = "TabSwitchResult"
          /\ br_step.response = None
    /\ (br_step.parsed /\ br_step.text \in {StdinUnknown, StdinAckNoSuccess}) =>
          /\ br_step.sent = None
          /\ br_step.response = None
    /\ br_step.text = StdinNotJson =>
          /\ ~br_step.parsed
          /\ br_step.sent = None
          /\ br_step.response = None
    /\ br_step.text \in StdinTexts => br_step.parsed = (br_step.text # StdinNotJson)
    /\ WroteAtMostTheResponse
    /\ br_step.written = (br_step.response # None /\ br_step.next = "length")
    /\ br_step.response = None => br_step.next = "length"

\* a getTabs command that also carries the members of a pushed tab list was
\* handled as a command: GetTabs went to the launcher and a Response was
\* written
C26_Witness ==
    /\ br_step.parsed /\ br_step.text = StdinCommandWithType
    /\ br_step.sent = Some(GetTabsMsg)
    /\ br_step.written

\* ======================================================================
\* Properties of the WebSocket sessions (SpecWs)
\* ======================================================================
\* the step st handled a text frame
IsTextStep(st) == st.kind = "frame" /\ st.frame.frame = "text"

\* the step st handled a text frame that parsed as a Request
IsRequestStep(st) ==
    /\ IsTextStep(st)
    /\ ParsedText[st.frame.text].kind = "Ok"
    /\ ParsedText[st.frame.text].value.type = "request"

\* the Request a request step handled
StepRequest(st) == ParsedText[st.frame.text].value

\* the step st handled a Request of the given method
IsMethodStep(st, method) == IsRequestStep(st) /\ StepRequest(st).method = method

\* the message a step with one send gave to ws_sender.send
StepMessage(st) == st.sends[1]

\* the step st is the return of a send made in the select loop
IsSentStep(st) == st.kind = "sent"

\* the methods handle_request knows
KnownMethods == {"getTabs", "updateTabs", "switchToTab", "keepAlive"}

\* the step st gave send one Response for its request
AnsweredOnce(st) ==
    /\ Len(st.sends) = 1
    /\ StepMessage(st).type = "response"
    /\ StepMessage(st).id = StepRequest(st).id

\* the step st gave send one success Response for its request
AnsweredSuccess(st) ==
    /\ AnsweredOnce(st)
    /\ StepMessage(st).result = Some([success |-> TRUE])
    /\ StepMessage(st).error = None

\* the step st gave send one error Response of the given code for its request
AnsweredError(st, code) ==
    /\ AnsweredOnce(st)
    /\ StepMessage(st).result = None
    /\ StepMessage(st).error # None
    /\ StepMessage(st).error.value.code = code

\* the text of an updateTabs Request whose params are {"tabs": ts}, and of a
\* switchToTab Request whose params are {"tab_id": t, "window_id": w}
UpdateTabsText(ts) == json_request("1", "updateTabs", json_tabs_params(ts))
SwitchToTabText(t, w) == json_request("1", "switchToTab", json_switch_params(t, w))

\* the step left the tab list and the command queue as it found them
StoreUntouched(st) == tabs = st.before.tabs /\ command_queue = st.before.queue

\* the texts a browser sends that are JSON
IsJsonText == [text \in WsTexts |-> value_from_slice(text).ok]

\* C13: a text frame holding valid JSON that is not a WebSocketMessage is
\* answered with one error Response of code 400.
C13_SchemaErrorAnswered ==
    (/\ IsTextStep(ws_step)
     /\ IsJsonText[ws_step.frame.text]
     /\ ParsedText[ws_step.frame.text].kind = "Err")
    => /\ Len(ws_step.sends) = 1
       /\ StepMessage(ws_step).type = "response"
       /\ StepMessage(ws_step).error # None
       /\ StepMessage(ws_step).error.value.code = 400

\* the message is the Response {404, "Unknown method: <method>"} to id
IsUnknownMethodResponse(msg, id, method) ==
    /\ msg.type = "response"
    /\ msg.id = id
    /\ msg.result = None
    /\ msg.error = Some([code |-> 404, message |-> <<"Unknown method: ", method>>])

\* C14: a Request with a method handle_request does not know is answered with
\* one Response that has the id of the request, no result, and the error
\* {404, "Unknown method: <method>"}; the tab list and the command queue stay
\* as they were, the session is still in its loop, and it goes on with the
\* loop when the send of that Response has returned Ok.
C14_UnknownMethod ==
    /\ (IsRequestStep(ws_step) /\ StepRequest(ws_step).method \notin KnownMethods)
       => /\ AnsweredOnce(ws_step)
          /\ IsUnknownMethodResponse(StepMessage(ws_step), StepRequest(ws_step).id,
                                     StepRequest(ws_step).method)
          /\ StoreUntouched(ws_step)
          /\ ws_state[ws_step.session] = "sending"
          /\ ws_sending[ws_step.session] = Some(StepMessage(ws_step))
    /\ (/\ IsSentStep(ws_step)
        /\ ws_step.done.value.ok
        /\ ws_step.done.value.msg.type = "response"
        /\ ws_step.done.value.msg.error # None
        /\ ws_step.done.value.msg.error.value.code = 404)
       => /\ ws_state[ws_step.session] = "active"
          /\ StoreUntouched(ws_step)

\* C14 witness: the error 404 for "bogus" was sent on a session that is
\* active again, while a tab list and a queued command were there
C14_Witness ==
    /\ IsSentStep(ws_step)
    /\ ws_step.done.value.ok
    /\ IsUnknownMethodResponse(ws_step.done.value.msg, "2", "bogus")
    /\ ws_state[ws_step.session] = "active"
    /\ tabs # <<>>
    /\ command_queue # <<>>

\* C15: every Request received on an active session is answered in the step
\* that receives it, with exactly one Response that has the id of the request
\* and exactly one of result and error; the session takes no other frame and
\* no command until the send of that Response has returned, so Responses go
\* out in the order of their Requests; a step that did not receive a Request
\* (an inbound Response or Event, any other frame, a timer tick, a channel
\* receive, the handshake) gives no Response to send.
C15_RequestResponseCorrelation ==
    /\ IF IsRequestStep(ws_step)
       THEN /\ ws_step.before.state = "active"
            /\ AnsweredOnce(ws_step)
            /\ (StepMessage(ws_step).result = None) # (StepMessage(ws_step).error = None)
            /\ ws_state[ws_step.session] = "sending"
            /\ ws_sending[ws_step.session] = Some(StepMessage(ws_step))
       ELSE \A i \in 1..Len(ws_step.sends) : ws_step.sends[i].type # "response"
    /\ ws_step.kind \in {"frame", "command"} => ws_step.before.state = "active"
    /\ IsSentStep(ws_step) => ws_step.before.state = "sending"
    /\ \A s \in Sessions :
          (ws_state[s] \in {"greeting", "sending"}) = (ws_sending[s] # None)

\* C15 witness: the switchToTab request "1" was answered with a result
C15_Witness ==
    /\ IsRequestStep(ws_step)
    /\ StepRequest(ws_step).method = "switchToTab"
    /\ StepMessage(ws_step).id = "1"
    /\ StepMessage(ws_step).result # None
    /\ StepMessage(ws_step).error = None

\* C16: the step that follows the handshake gives send one tabsUpdated Event
\* with the tab list of that moment; until that send has returned nothing
\* else of the connection runs; whether it returned Ok or Err, the session
\* loop is entered with the tab list and the command queue as they were and
\* the channel empty; every other send on a connection is made by a step of
\* the session loop.
C16_InitialTabsUpdated ==
    /\ ws_step.kind = "accept"
       => /\ ws_step.before.state = "idle"
          /\ ws_state[ws_step.session] = "greeting"
          /\ Len(ws_step.sends) = 1
          /\ StepMessage(ws_step).type = "event"
          /\ StepMessage(ws_step).event = "tabsUpdated"
          /\ StepMessage(ws_step).data = [tabs |-> ws_step.before.tabs]
          /\ StoreUntouched(ws_step)
    /\ ws_step.kind = "greeted"
       => /\ ws_step.before.state = "greeting"
          /\ ws_step.done.value.msg.type = "event"
          /\ ws_step.done.value.msg.event = "tabsUpdated"
          /\ ws_state[ws_step.session] = "active"
          /\ StoreUntouched(ws_step)
          /\ command_rx[ws_step.session] = <<>>
          /\ poller_held[ws_step.session] = None
    /\ (ws_step.sends # <<>> /\ ws_step.kind # "accept")
       => ws_step.before.state = "active"
    /\ (ws_step.kind # "none" /\ ws_step.before.state = "idle")
       => ws_step.kind \in {"accept", "handshake"}
    /\ (ws_step.kind # "none" /\ ws_step.before.state = "greeting")
       => ws_step.kind = "greeted"

\* C16 witness: the send of the initial Event has failed while a tab list and
\* a queued command were there, and the session loop is entered
C16_Witness ==
    /\ ws_step.kind = "greeted"
    /\ ~ws_step.done.value.ok
    /\ ws_step.done.value.msg.data.tabs = <<TabB, TabA>>
    /\ tabs = <<TabB, TabA>>
    /\ command_queue # <<>>
    /\ ws_state[ws_step.session] = "active"

\* C17 as stated: every updateTabs Request is answered with the success
\* Response.
C17_UpdateTabsAlwaysSucceeds ==
    IsMethodStep(ws_step, "updateTabs") => AnsweredSuccess(ws_step)

\* C17 amended: an updateTabs Request whose params are {"tabs": ts}, every
\* element of ts a tab with all its fields, is answered with the success
\* Response and leaves the tab list equal to ts, so that a getTabs on any
\* session, which answers the tab list as it finds it and changes nothing,
\* returns them; an updateTabs Request without params, or whose tabs is not
\* such a list, is answered with the error 400 and leaves the tab list as it
\* was.
C17_UpdateTabsReplaces ==
    /\ \A ts \in TabLists :
          (IsTextStep(ws_step) /\ ws_step.frame.text = UpdateTabsText(ts))
          => /\ IsMethodStep(ws_step, "updateTabs")
             /\ AnsweredSuccess(ws_step)
             /\ tabs = ts
    /\ (/\ IsMethodStep(ws_step, "updateTabs")
        /\ ws_step.frame.text \notin {UpdateTabsText(ts) : ts \in TabLists})
       => /\ AnsweredError(ws_step, 400)
          /\ tabs = ws_step.before.tabs
    /\ IsMethodStep(ws_step, "updateTabs")
       => command_queue = ws_step.before.queue
    /\ IsMethodStep(ws_step, "getTabs")
       => /\ AnsweredOnce(ws_step)
          /\ StepMessage(ws_step).result = Some([tabs |-> ws_step.before.tabs])
          /\ tabs = ws_step.before.tabs

\* C17 witness: updateTabs has put <<TabA>> in the place of a longer list
C17_Witness ==
    /\ IsMethodStep(ws_step, "updateTabs")
    /\ ws_step.frame.text = UpdateTabsText(<<TabA>>)
    /\ AnsweredSuccess(ws_step)
    /\ ws_step.before.tabs = <<TabB, TabA>>
    /\ tabs = <<TabA>>

\* C18 as stated: every switchToTab Request is answered with the success
\* Response.
C18_SwitchAlwaysAcks ==
    IsMethodStep(ws_step, "switchToTab") => AnsweredSuccess(ws_step)

\* C18 amended: a switchToTab Request whose params are {"tab_id": t,
\* "window_id": w}, both integers of 32 bits, appends exactly one command
\* with these two values to the tail of the command queue and gives the
\* success Response to send in the same step, the command still being in the
\* queue; a switchToTab Request without such params is answered with the
\* error 400 and leaves the queue as it was. Both leave the tab list as it
\* was.
C18_SwitchQueuesAndAcks ==
    /\ \A p \in SwitchTargets :
          (IsTextStep(ws_step) /\ ws_step.frame.text = SwitchToTabText(p[1], p[2]))
          => /\ IsMethodStep(ws_step, "switchToTab")
             /\ AnsweredSuccess(ws_step)
             /\ command_queue =
                    Append(ws_step.before.queue, SwitchToTab(p[1], p[2]))
    /\ (/\ IsMethodStep(ws_step, "switchToTab")
        /\ ws_step.frame.text
               \notin {SwitchToTabText(p[1], p[2]) : p \in SwitchTargets})
       => /\ AnsweredError(ws_step, 400)
          /\ command_queue = ws_step.before.queue
    /\ IsMethodStep(ws_step, "switchToTab") => tabs = ws_step.before.tabs

\* C18 witness: switchToTab(7, 3) was acknowledged and its command stands
\* behind the command of an earlier request
C18_Witness ==
    /\ IsMethodStep(ws_step, "switchToTab")
    /\ ws_step.frame.text = SwitchToTabText(7, 3)
    /\ AnsweredSuccess(ws_step)
    /\ command_queue = <<SwitchToTab(5, 2), SwitchToTab(7, 3)>>
    /\ tabs # <<>>

\* C19: when the send of a session's poller into the channel has returned,
\* the command the poller popped is in the channel of that session, from
\* where the session loop sends it as a tabSwitchRequested Event.
C19_PoppedIsEmitted ==
    ws_step.kind = "forward"
    => /\ command_rx[ws_step.session] # <<>>
       /\ command_rx[ws_step.session][Len(command_rx[ws_step.session])] =
              <<ws_step.popped.value.tab_id, ws_step.popped.value.window_id>>

\* C20: a keepAlive Request is answered with one Response that has the id of
\* the request, no error, and the result {timestamp: t} with t >= 0; a getTabs
\* Request is answered with one Response too; neither pops a command, and
\* both leave the command queue and the tab list as they were.
C20_KeepAliveAndGetTabsReadOnly ==
    /\ IsMethodStep(ws_step, "keepAlive")
       => /\ AnsweredOnce(ws_step)
          /\ StepMessage(ws_step).error = None
          /\ StepMessage(ws_step).result # None
          /\ DOMAIN StepMessage(ws_step).result.value = {"timestamp"}
          /\ StepMessage(ws_step).result.value.timestamp \in Nat
    /\ (IsMethodStep(ws_step, "keepAlive") \/ IsMethodStep(ws_step, "getTabs"))
       => /\ StoreUntouched(ws_step)
          /\ ws_step.popped = None

\* C20 witness: keepAlive was answered while a command was queued and a tab
\* list was there
C20_Witness ==
    /\ IsMethodStep(ws_step, "keepAlive")
    /\ StepMessage(ws_step).result # None
    /\ StepMessage(ws_step).result.value.timestamp = 42
    /\ command_queue # <<>>
    /\ tabs # <<>>

\* Connected, Active and Closed of a session: between the handshake and the
\* select loop, in the select loop (at the select or in a send it awaits),
\* and after the loop
SessionPhase(st) ==
    CASE st = "greeting" -> "Connected"
      [] st \in {"active", "sending"} -> "Active"
      [] st = "closed" -> "Closed"
      [] OTHER -> st

\* the moves a step may make its session take
SessionMoves ==
    {<<"idle", "failed">>, <<"idle", "Connected">>, <<"Connected", "Active">>,
     <<"Active", "Active">>, <<"Active", "Closed">>, <<"Closed", "Closed">>}

\* the frames that end the loop
IsEndFrame(st) == st.kind = "frame" /\ st.frame.frame \in {"close", "end", "error"}

\* C21: a session goes from the handshake to Connected, from there to the
\* select loop and from there to Closed, and a closed session is never active
\* again. In the loop a binary frame is ignored (nothing sent, tab list and
\* queue untouched, session still at the select), a ping frame is answered
\* with one pong of the same payload, a text frame holding a Request is
\* dispatched and answered; a close frame, the end of the stream, a receive
\* error and a send of a Response, a pong or a tabSwitchRequested Event that
\* returned Err end the loop, a send that returned Ok goes back to the
\* select; and a step of one session leaves the position of every other
\* connection as it was, an idle one still open to a handshake.
C21_SessionStateMachine ==
    ws_step.kind # "none"
    => /\ <<SessionPhase(ws_step.before.state),
            SessionPhase(ws_state[ws_step.session])>> \in SessionMoves
       /\ ws_step.kind \in {"frame", "command"} => ws_step.before.state = "active"
       /\ (ws_step.kind = "frame" /\ ws_step.frame.frame = "binary")
          => /\ ws_step.sends = <<>>
             /\ StoreUntouched(ws_step)
             /\ ws_state[ws_step.session] = "active"
       /\ (ws_step.kind = "frame" /\ ws_step.frame.frame = "ping")
          => /\ ws_step.sends = <<[type |-> "pong", data |-> ws_step.frame.data]>>
             /\ StoreUntouched(ws_step)
             /\ ws_state[ws_step.session] = "sending"
       /\ IsRequestStep(ws_step)
          => AnsweredOnce(ws_step) /\ ws_state[ws_step.session] = "sending"
       /\ IsEndFrame(ws_step)
          => /\ ws_state[ws_step.session] = "closed"
             /\ ws_step.sends = <<>>
       /\ IsSentStep(ws_step)
          => /\ ws_step.before.state = "sending"
             /\ ws_state[ws_step.session] =
                    IF ws_step.done.value.ok THEN "active" ELSE "closed"
       /\ (ws_step.kind \in {"frame", "command"} /\ ~IsEndFrame(ws_step))
          => ws_state[ws_step.session] \in {"active", "sending"}
       /\ \A t \in Sessions \ {ws_step.session} :
             /\ ws_state[t] = ws_step.before.ws_state[t]
             /\ ws_state[t] = "idle" => ENABLED WxAccept(t)

\* C21 witness: the send of a pong has returned Err and ended its session
\* while the other session is in its loop
C21_Witness ==
    /\ IsSentStep(ws_step)
    /\ ws_step.done.value.msg = [type |-> "pong", data |-> <<1>>]
    /\ ~ws_step.done.value.ok
    /\ ws_state[ws_step.session] = "closed"
    /\ \E t \in Sessions \ {ws_step.session} : ws_state[t] = "active"

\* ======================================================================
\* Properties of the TabManager shared between threads (SpecLocks)
\* ======================================================================
\* C22: every get_tabs returns the initial empty list or the whole argument
\* of one update_tabs, namely of the latest update_tabs completed when the
\* read ran, never a mixture or a part of a list; every search_tabs result
\* is the search of that one complete snapshot.
C22_ReplaceAtomicity ==
    /\ lk_ret.call.op = "get_tabs" =>
          /\ lk_ret.value \in {<<>>} \cup StoredLists
          /\ lk_ret.value = lk_ret.latest
    /\ lk_ret.call.op = "search_tabs" =>
          lk_ret.value = search_tabs(lk_ret.latest, lk_ret.call.arg)

\* a get_tabs returned the two-tab list while another thread's update_tabs
\* was waiting for the mutex
C22_Witness ==
    /\ lk_ret.call = CallGetTabs
    /\ lk_ret.value = <<TabB, TabA>>
    /\ lk_pc[lk_ret.thread] = "unlock"
    /\ \E t \in Threads \ {lk_ret.thread} :
          lk_pc[t] = "lock" /\ lk_call[t] = CallUpdateTabs(<<TabA>>)

\* two chars that are the same but for their case: their lowercase forms
\* are equal
FoldEq(a, b) == to_lower(a) = to_lower(b)

\* the text holds the query at some offset, letter case set aside
HoldsQuery(text, query) ==
    LET h == chars(Utf8(text))
        n == chars(Utf8(query))
    IN \E k \in 0..(Len(h) - Len(n)) : \A i \in 1..Len(n) : FoldEq(h[k + i], n[i])

MatchesQuery(tab, query) ==
    HoldsQuery(tab.title, query) \/ HoldsQuery(tab.url, query)

\* C23: search_tabs(query) returns exactly the tabs of the snapshot whose
\* title or url holds the query without regard to letter case, each once,
\* unmodified and in snapshot order; the empty query returns the whole
\* snapshot; the snapshot and the command queue are left as they were.
C23_SearchFilter ==
    lk_ret.call.op = "search_tabs" =>
        /\ lk_ret.value =
              SelectSeq(lk_ret.before.tabs,
                        LAMBDA tab : MatchesQuery(tab, lk_ret.call.arg))
        /\ lk_ret.call.arg = "" => lk_ret.value = lk_ret.before.tabs
        /\ lk_ret.after = lk_ret.before

\* C27: a thread that is at its I/O (a pipe or socket read or write, a
\* channel operation, the timer) or blocked in lock() holds neither mutex;
\* a mutex is held only by a thread inside the one replace, copy, search,
\* push or pop that locked it, and that thread can always take its next
\* step towards dropping the guard, so no thread blocks another for good.
C27_LocksNotHeldAcrossIo ==
    /\ \A t \in Threads :
          lk_pc[t] \in {"io", "lock"} => \A m \in LockNames : lk_owner[m] # t
    /\ \A m \in LockNames :
          lk_owner[m] # NoThread =>
              /\ lk_pc[lk_owner[m]] \in {"held", "assigning", "unlock"}
              /\ lock_of(lk_call[lk_owner[m]]) = m
              /\ ENABLED (\/ LkAssign(lk_owner[m])
                          \/ LkRun(lk_owner[m])
                          \/ LkRelease(lk_owner[m]))

\* the UI thread is back at its I/O after a call that returned, while the
\* WebSocket task is in the middle of update_tabs and the pipe thread holds
\* the queue mutex
C27_Witness ==
    /\ lk_ret.thread = "ui"
    /\ lk_pc["ui"] = "io"
    /\ lk_owner["tabs"] = "ws" /\ lk_pc["ws"] = "assigning"
    /\ lk_owner["command_queue"] = "pipe"

\* a is the beginning of b
IsPrefix(a, b) == Len(a) <= Len(b) /\ a = SubSeq(b, 1, Len(a))

\* C28 (as claimed): a tick of a session's poller that calls pop_command
\* happens only while the session is in its loop; after the session has
\* closed its poller pops no more.
C28_ClosedPollerStops ==
    ws_step.kind = "tick" => ws_step.before.state \in {"active", "sending"}

\* the commands session s has popped and not yet sent, oldest first: the one
\* whose Event is being sent, those in the channel, the one its poller is
\* sending into the channel
Waiting(s) ==
    (IF ws_sending[s] # None /\ IsSwitchEvent(ws_sending[s].value)
     THEN <<SwitchToTab(ws_sending[s].value.data.tab_id,
                        ws_sending[s].value.data.window_id)>>
     ELSE <<>>)
    \o [i \in 1..Len(command_rx[s]) |->
          SwitchToTab(command_rx[s][i][1], command_rx[s][i][2])]
    \o (IF poller_held[s] # None
        THEN <<SwitchToTab(poller_held[s].value[1], poller_held[s].value[2])>>
        ELSE <<>>)

\* C30: the tabSwitchRequested events a session has sent are, in order, the
\* first of the commands its poller popped, none skipped or overtaken; a
\* session in its loop has the others waiting in the same order, in the
\* send of an Event, in its channel and in the send of its poller; and when
\* no other session was ever accepted, the events are in the order in which
\* the commands were pushed.
C30_EventsInPopOrder ==
    \A s \in Sessions :
        /\ IsPrefix(ws_order[s].emitted, ws_order[s].popped)
        /\ ws_state[s] \in {"active", "sending"} =>
              ws_order[s].popped = ws_order[s].emitted \o Waiting(s)
        /\ (\A o \in Sessions \ {s} : ws_state[o] = "idle") =>
              IsPrefix(ws_order[s].emitted, pushed)

\* a session has sent the events for SwitchToTab{5, 2} and SwitchToTab{7, 3},
\* pushed and popped in that order
C30_Witness ==
    \E s \in Sessions :
        /\ ws_order[s].emitted = <<SwitchToTab(5, 2), SwitchToTab(7, 3)>>
        /\ ws_order[s].popped = ws_order[s].emitted
        /\ pushed = ws_order[s].emitted

\* ======================================================================
\* Properties of the exchange between bridge and pipe server (SpecExchange)
\* ======================================================================
\* C29 (as claimed): every message the bridge has sent over the pipe, and
\* for which it waits in read_message, is eventually followed by the return
\* of communicate_with_launcher with a reply or an error.
C29_BridgeProgress ==
    (nh_pc = "recv") ~> (nh_pc = "idle" /\ nh_result # NoResult)

====
